---------------------------- MODULE Spec2Model ----------------------------
(***************************************************************************)
(* Model of the HR analytics platform: the response cache of the API and   *)
(* the endpoint handlers that use it (src/api/main.py), the batch loader   *)
(* (src/scripts/hr_data_pipeline.py), the dashboard                        *)
(* (src/visualizations/dashboard.py) and the export script                 *)
(* (src/simple_export.py).                                                 *)
(*                                                                         *)
(* The specifications share the variables:                                 *)
(*   CacheSpec  the two cache functions called directly, any key and value *)
(*   Spec       the HTTP endpoints, one request at a time (the handlers    *)
(*              are "async def" without an await, so the event loop runs   *)
(*              each of them to completion)                                *)
(*   RaceSpec   the two cache functions called from parallel threads, one  *)
(*              interpreter step at a time                                 *)
(*   LoopSpec   concurrent requests on the event loop                      *)
(*   FillSpec   requests of every endpoint, the store filling up           *)
(*   HealthSpec the endpoints and the health check                         *)
(*   PipeSpec   runs of the batch loader                                   *)
(*   KpiSpec    calculate_core_kpis of the dashboard                       *)
(*   ExportSpec a run of the export script                                 *)
(*   DashSpec   runs of the dashboard's main                               *)
(*   StaleSpec  the dashboard's memo in front of the API's cache           *)
(***************************************************************************)
EXTENDS Integers, Sequences, FiniteSets, TLC

VARIABLES
    now,      \* the wall clock read by datetime.now(), in seconds
    CACHE,    \* the module-level dict: key -> <<timestamp, data>>
    DEV_MODE, \* the module-level flag read from the environment at start
    last,     \* the last completed operation and what it returned
    hist,     \* what the callers did, recorded from the calls' arguments
    nreq,     \* the number of HTTP requests handled so far
    thr,      \* RaceSpec: the state of each thread
    db,       \* the relations of the database the batch loader writes
    run       \* the script that is running (pipeline, dashboard, export)

vars == <<now, CACHE, DEV_MODE, last, hist, nreq, thr, db, run>>

\* The variables of the API process, and those of the scripts around it.
api == <<now, CACHE, DEV_MODE, last, hist, nreq, thr>>
ext == <<db, run>>

\* No script is running and no relation is modelled.
NoDatabase == <<>>
NoRun == [pc |-> "none"]
ExtInit == db = NoDatabase /\ run = NoRun

---------------------------------------------------------------------------
(* Bounds of the model *)

MaxTime == 602
MaxUptime == 301
MaxRequests == 2
MaxRuns == 2
MaxMetrics == 2
MaxLatency == 1

\* The clock advances between operations by one of these amounts: just
\* inside the freshness window, exactly at its end, and just past it.
Jumps == {299, 300, 301}

---------------------------------------------------------------------------
(* Python values *)

\* A value is a record of one shape: kind names the Python type and layout,
\* rows the records it holds, extra a second component when there is one.
PyVal(kind, rows, extra) == [kind |-> kind, rows |-> rows, extra |-> extra]

None == PyVal("None", <<>>, <<>>)

\* df.to_dict('records'): a list of row dicts
RecordsList(rows) == PyVal("list", rows, <<>>)

\* bool(x) as Python's "if x:" computes it: None and the empty list are
\* false, a dict with at least one key is true.
Truthy(v) ==
    CASE v.kind = "None" -> FALSE
      [] v.kind = "list" -> v.rows # <<>>
      [] OTHER -> TRUE

---------------------------------------------------------------------------
(* The cache: src/api/main.py lines 77-91 *)

CACHE_DURATION == 300

\* CACHE = {}
EmptyCache == <<>>

\* timestamp, data = CACHE[key]
EntryTimestamp(entry) == entry[1]
EntryData(entry) == entry[2]

\* get_cached_data as a bug would have it: "<=" for "<"
get_cached_data_inclusive(cache, key, t) ==
    IF key \in DOMAIN cache
    THEN IF t - EntryTimestamp(cache[key]) <= CACHE_DURATION
         THEN EntryData(cache[key])
         ELSE None
    ELSE None

\* get_cached_data as a bug would have it: timedelta(minutes=...) for seconds
get_cached_data_minutes(cache, key, t) ==
    IF key \in DOMAIN cache
    THEN IF t - EntryTimestamp(cache[key]) < 60 * CACHE_DURATION
         THEN EntryData(cache[key])
         ELSE None
    ELSE None

\* get_cached_data as a bug would have it: an unknown key falls back to
\* whatever entry the store holds
get_cached_data_anykey(cache, key, t) ==
    LET k == IF key \in DOMAIN cache \/ DOMAIN cache = {}
             THEN key
             ELSE CHOOSE x \in DOMAIN cache : TRUE
    IN  IF k \in DOMAIN cache
        THEN IF t - EntryTimestamp(cache[k]) < CACHE_DURATION
             THEN EntryData(cache[k])
             ELSE None
        ELSE None

\* get_cached_data as a bug would have it: a window of its own for one of
\* the keys
get_cached_data_perkey(cache, key, t) ==
    LET ttl == IF key = "hiring_metrics"
               THEN CACHE_DURATION + CACHE_DURATION
               ELSE CACHE_DURATION
    IN  IF key \in DOMAIN cache
        THEN IF t - EntryTimestamp(cache[key]) < ttl
             THEN EntryData(cache[key])
             ELSE None
        ELSE None

\* get_cached_data(key) called when the clock reads t
get_cached_data(cache, key, t) ==
    IF key \in DOMAIN cache
    THEN IF t - EntryTimestamp(cache[key]) < CACHE_DURATION
         THEN EntryData(cache[key])
         ELSE None
    ELSE None

\* set_cached_data as a bug would have it: a key already present keeps its
\* entry (dict.setdefault)
set_cached_data_setdefault(cache, key, data, t) ==
    IF key \in DOMAIN cache THEN cache ELSE (key :> <<t, data>>) @@ cache

\* set_cached_data as a bug would have it: the dict is rebuilt with the one
\* entry (CACHE = {key: ...})
set_cached_data_rebuild(cache, key, data, t) ==
    (key :> <<t, data>>)

\* set_cached_data as a bug would have it: an entry already present is
\* updated in part, its data replaced and its timestamp kept
set_cached_data_partial(cache, key, data, t) ==
    IF key \in DOMAIN cache
    THEN (key :> <<EntryTimestamp(cache[key]), data>>) @@ cache
    ELSE (key :> <<t, data>>) @@ cache

\* set_cached_data(key, data) called when the clock reads t
set_cached_data(cache, key, data, t) ==
    (key :> <<t, data>>) @@ cache

---------------------------------------------------------------------------
(* CacheSpec: the cache functions called directly *)

CacheKeys == {"k1", "k2"}
CacheValues == {RecordsList(<<>>), RecordsList(<<"r1">>), RecordsList(<<"r2">>)}

NoOp == [op |-> "none"]
NoThreads == <<>>

\* hist[k] is the sequence of set_cached_data(k, _) calls, the latest first,
\* at most the last two: <<time, value>> pairs taken from the arguments.
NoHist == <<>>
Written(k) == k \in DOMAIN hist
LastPut(k) == hist[k][1]
HasPrevPut(k) == Written(k) /\ Len(hist[k]) >= 2
PrevPut(k) == hist[k][2]
RecordPut(h, k, v, t) ==
    (k :> (IF k \in DOMAIN h THEN <<[t |-> t, v |-> v], h[k][1]>>
                             ELSE <<[t |-> t, v |-> v]>>)) @@ h

CacheInit ==
    /\ now = 0
    /\ CACHE = EmptyCache
    /\ DEV_MODE = TRUE
    /\ last = NoOp
    /\ hist = NoHist
    /\ nreq = 0
    /\ thr = NoThreads
    /\ ExtInit

\* time passes between two calls, up to the horizon
Elapse(horizon) ==
    /\ \E d \in Jumps :
          /\ now + d <= horizon
          /\ now' = now + d
    /\ UNCHANGED <<CACHE, DEV_MODE, last, hist, nreq, thr, ext>>

Tick == Elapse(MaxTime)

CallSet(k, v) ==
    /\ CACHE' = set_cached_data(CACHE, k, v, now)
    /\ hist' = RecordPut(hist, k, v, now)
    /\ last' = [op |-> "set", key |-> k, arg |-> v, ret |-> None, at |-> now,
                before |-> CACHE]
    /\ UNCHANGED <<now, DEV_MODE, nreq, thr, ext>>

\* get_cached_data as a bug would have it: an expired entry is deleted when
\* it is read
CallGet_purge(k) ==
    /\ last' = [op |-> "get", key |-> k, arg |-> None,
                ret |-> get_cached_data(CACHE, k, now), at |-> now,
                before |-> CACHE]
    /\ CACHE' = IF k \in DOMAIN CACHE
                   /\ now - EntryTimestamp(CACHE[k]) >= CACHE_DURATION
                THEN [x \in DOMAIN CACHE \ {k} |-> CACHE[x]]
                ELSE CACHE
    /\ UNCHANGED <<now, DEV_MODE, hist, nreq, thr, ext>>

CallGet(k) ==
    /\ last' = [op |-> "get", key |-> k, arg |-> None,
                ret |-> get_cached_data(CACHE, k, now), at |-> now,
                before |-> CACHE]
    /\ UNCHANGED <<now, CACHE, DEV_MODE, hist, nreq, thr, ext>>

CacheNext ==
    \/ Tick
    \/ \E k \in CacheKeys, v \in CacheValues : CallSet(k, v)
    \/ \E k \in CacheKeys : CallGet(k)

CacheSpec == CacheInit /\ [][CacheNext]_vars

---------------------------------------------------------------------------
(* The cache contract, checked under CacheSpec *)

LastGet == last.op = "get"
LastSet == last.op = "set"

\* C1 (Freshness): a get_cached_data(k) made at time t after the last
\* set_cached_data(k, v) at time t0 returns v when t - t0 < CACHE_DURATION
\* and None when t - t0 >= CACHE_DURATION.
C1_Freshness ==
    (LastGet /\ Written(last.key)) =>
        LET p == LastPut(last.key) IN
        /\ p.t <= last.at
        /\ (last.at - p.t < CACHE_DURATION) => (last.ret = p.v)
        /\ (last.at - p.t >= CACHE_DURATION) => (last.ret = None)

\* a read exactly CACHE_DURATION after the write misses
C1_Witness ==
    /\ LastGet /\ Written(last.key)
    /\ last.at - LastPut(last.key).t = CACHE_DURATION
    /\ last.ret = None

\* C2 (Overwrite): after set_cached_data(k, v1) and then set_cached_data(k,
\* v2), a get_cached_data(k) inside the window of the second write returns
\* v2, and not v1 when the two differ, whether the first write had expired at
\* the second or not.
C2_Overwrite ==
    (LastGet /\ HasPrevPut(last.key)) =>
        LET p2 == LastPut(last.key)
            p1 == PrevPut(last.key) IN
        (last.at - p2.t < CACHE_DURATION) =>
            /\ last.ret = p2.v
            /\ (p1.v # p2.v) => (last.ret # p1.v)

\* the second write came while the first was still fresh, with another value
C2_Witness ==
    /\ LastGet /\ HasPrevPut(last.key)
    /\ PrevPut(last.key).v # LastPut(last.key).v
    /\ LastPut(last.key).t - PrevPut(last.key).t < CACHE_DURATION
    /\ last.at - LastPut(last.key).t < CACHE_DURATION
    /\ last.ret = LastPut(last.key).v

\* C3 (Miss on unknown key): get_cached_data(k) returns None when no
\* set_cached_data(k, _) was ever made, whatever was done to other keys.
C3_MissOnUnknownKey ==
    (LastGet /\ ~Written(last.key)) => (last.ret = None)

\* the unknown key is read while another key holds a fresh entry
C3_Witness ==
    /\ LastGet /\ ~Written(last.key)
    /\ \E k \in CacheKeys :
          /\ Written(k)
          /\ last.at - LastPut(k).t < CACHE_DURATION
    /\ last.ret = None

\* C4 (Independence): set_cached_data(k1, v1) leaves the entry of every
\* other key k2 as it was, so get_cached_data(k2) gives at every time what
\* it would have given without the write.
C4_Independence ==
    LastSet =>
        \A k2 \in CacheKeys \ {last.key} :
            /\ (k2 \in DOMAIN CACHE) <=> (k2 \in DOMAIN last.before)
            /\ (k2 \in DOMAIN CACHE) => (CACHE[k2] = last.before[k2])
            /\ \A t \in 0..MaxTime :
                  get_cached_data(CACHE, k2, t)
                      = get_cached_data(last.before, k2, t)

\* a write to one key while the other key holds an entry
C4_Witness ==
    /\ LastSet
    /\ \E k2 \in CacheKeys \ {last.key} :
          /\ k2 \in DOMAIN CACHE
          /\ last.at - EntryTimestamp(CACHE[k2]) < CACHE_DURATION

\* C5 (TTL boundary): CACHE_DURATION is 300 seconds; a read 299 s after the
\* last write of the key returns the value written and a read 301 s after it
\* returns None.
C5_TTLBoundary ==
    /\ CACHE_DURATION = 300
    /\ (LastGet /\ Written(last.key)) =>
          LET p == LastPut(last.key) IN
          /\ (last.at - p.t = 299) => (last.ret = p.v)
          /\ (last.at - p.t = 301) => (last.ret = None)

\* a read 301 s after the write, which misses
C5_Witness ==
    /\ LastGet /\ Written(last.key)
    /\ last.at - LastPut(last.key).t = 301
    /\ last.ret = None

\* a read 299 s after the write, which hits
C5_WitnessHit ==
    /\ LastGet /\ Written(last.key)
    /\ last.at - LastPut(last.key).t = 299
    /\ last.ret = LastPut(last.key).v

\* C13 (get_cached_data is read-only): a get_cached_data leaves CACHE as it
\* was, on a hit and on a miss; the entry of a key stays what the last
\* set_cached_data for that key stored, timestamp and value, also once it is
\* stale and after it has been read.
C13_GetReadOnly ==
    /\ LastGet => (CACHE = last.before)
    /\ \A k \in CacheKeys :
          Written(k) =>
              /\ k \in DOMAIN CACHE
              /\ CACHE[k] = <<LastPut(k).t, LastPut(k).v>>

\* a stale entry has been read, the read missed, and the entry is still there
C13_Witness ==
    /\ LastGet /\ Written(last.key)
    /\ last.at - LastPut(last.key).t >= CACHE_DURATION
    /\ last.ret = None
    /\ last.key \in DOMAIN CACHE
    /\ EntryData(CACHE[last.key]) = LastPut(last.key).v

\* C14 (set_cached_data replaces the whole entry): after set_cached_data(k, v)
\* the entry of k is (time of the call, v), whatever it was before; the
\* window of k runs from this write (a read up to 299 s later returns v, a
\* read 300 s later misses), and nothing of the previous entry is kept.
C14_SetReplacesEntry ==
    LastSet =>
        /\ last.key \in DOMAIN CACHE
        /\ CACHE[last.key] = <<last.at, last.arg>>
        /\ \A d \in 0..(CACHE_DURATION - 1) :
              get_cached_data(CACHE, last.key, last.at + d) = last.arg
        /\ get_cached_data(CACHE, last.key, last.at + CACHE_DURATION) = None

\* the write replaced an entry that was still fresh, older, and of another
\* value
C14_Witness ==
    /\ LastSet
    /\ last.key \in DOMAIN last.before
    /\ EntryTimestamp(last.before[last.key]) < last.at
    /\ last.at - EntryTimestamp(last.before[last.key]) < CACHE_DURATION
    /\ EntryData(last.before[last.key]) # last.arg

---------------------------------------------------------------------------
(* Authentication: src/api/main.py lines 41-69 *)

\* USERS
USERS == ("mrbeast" :> "hr_analytics_2024") @@ ("admin" :> "admin_password")

\* What a request carries in its Authorization header.
NoCredentials == [present |-> FALSE, username |-> "", password |-> ""]
BasicAuth(u, p) == [present |-> TRUE, username |-> u, password |-> p]
Credentials ==
    { NoCredentials,
      BasicAuth("mrbeast", "hr_analytics_2024"),
      BasicAuth("mrbeast", "admin_password"),
      BasicAuth("guest", "hr_analytics_2024") }

\* The dependency of a handler: none when DEV_MODE (the parameter defaults to
\* None), else HTTPBasic followed by get_current_user. TRUE when the handler
\* body runs, FALSE when the request ends with 401.
\* get_current_user as a bug would have it: a known username is enough, the
\* password is not compared
get_current_user_useronly(devMode, credentials) ==
    IF devMode THEN TRUE
    ELSE /\ credentials.present
         /\ credentials.username \in DOMAIN USERS

get_current_user(devMode, credentials) ==
    IF devMode THEN TRUE
    ELSE /\ credentials.present
         /\ credentials.username \in DOMAIN USERS
         /\ credentials.password = USERS[credentials.username]

---------------------------------------------------------------------------
(* HTTP responses *)

NoDetail == [prefix |-> "", err |-> "", traceback |-> FALSE]

\* return result
Response200(body) == [status |-> 200, body |-> body, detail |-> NoDetail]

\* raise HTTPException(status_code=500, ...) with the error's text left out
HTTPException500_masked(prefix, e) ==
    [status |-> 500, body |-> None,
     detail |-> [prefix |-> prefix, err |-> "", traceback |-> FALSE]]

\* raise HTTPException(status_code=500, detail=f"{prefix}: {str(e)}")
HTTPException500(prefix, e) ==
    [status |-> 500, body |-> None,
     detail |-> [prefix |-> prefix, err |-> e, traceback |-> FALSE]]

\* the same with "\nTraceback: ..." appended (master-employee-view)
HTTPException500Traceback(prefix, e) ==
    [status |-> 500, body |-> None,
     detail |-> [prefix |-> prefix, err |-> e, traceback |-> TRUE]]

\* raise HTTPException(status_code=401, detail="Invalid credentials")
Response401 ==
    [status |-> 401, body |-> None,
     detail |-> [prefix |-> "Invalid credentials", err |-> "",
                 traceback |-> FALSE]]

---------------------------------------------------------------------------
(* The database as the handlers see it *)

\* pd.read_sql either returns a frame or raises.
QueryOk(rows) == [ok |-> TRUE, rows |-> rows, err |-> ""]
QueryRaises(e) == [ok |-> FALSE, rows |-> <<>>, err |-> e]

RowSets == {<<>>, <<"r1">>}
QueryErrors == {"OperationalError"}
QueryOutcomes == {QueryOk(r) : r \in RowSets} \cup {QueryRaises(e) : e \in QueryErrors}

\* What a handler run amounts to: the store it leaves, its response, and the
\* number of SQL queries it executed.
Outcome(cache, resp, queries) ==
    [cache |-> cache, resp |-> resp, queries |-> queries]

---------------------------------------------------------------------------
(* The cached endpoints: src/api/main.py lines 111-466 *)

\* the dict {"metrics": rows, "summary": {...}}; the summary is computed
\* from the same frame, so the rows determine it
MetricsResult(rows) == PyVal("metrics", rows, <<>>)

\* the dict {"employees": rows}
EmployeesResult(rows) == PyVal("employees", rows, <<>>)

\* the dict {"missing_data": rows, "consistency": first}
QualityResult(rows, first) == PyVal("quality", rows, <<first>>)

get_hiring_metrics(cache, t, q) ==
    LET cache_key == "hiring_metrics"
        cached_data == get_cached_data(cache, cache_key, t)
    IN  IF Truthy(cached_data)
        THEN Outcome(cache, Response200(cached_data), 0)
        ELSE IF q.ok
             THEN LET result == MetricsResult(q.rows) IN
                  Outcome(set_cached_data(cache, cache_key, result, t),
                          Response200(result), 1)
             ELSE Outcome(cache,
                          HTTPException500("Failed to fetch hiring metrics", q.err),
                          1)

\* The shared shape as a bug would have it: on a hit the handler appends a
\* record to the cached list, which is the object the store holds
RecordsEndpoint_tagging(cache, cache_key, prefix, t, q) ==
    LET cached_data == get_cached_data(cache, cache_key, t)
    IN  IF Truthy(cached_data)
        THEN LET tagged == RecordsList(Append(cached_data.rows, "r1")) IN
             Outcome((cache_key :> <<EntryTimestamp(cache[cache_key]), tagged>>)
                         @@ cache,
                     Response200(tagged), 0)
        ELSE IF q.ok
             THEN LET result == RecordsList(q.rows) IN
                  Outcome(set_cached_data(cache, cache_key, result, t),
                          Response200(result), 1)
             ELSE Outcome(cache, HTTPException500(prefix, q.err), 1)

\* The shape six handlers share: the list of records is stored and returned.
RecordsEndpoint(cache, cache_key, prefix, t, q) ==
    LET cached_data == get_cached_data(cache, cache_key, t)
    IN  IF Truthy(cached_data)
        THEN Outcome(cache, Response200(cached_data), 0)
        ELSE IF q.ok
             THEN LET result == RecordsList(q.rows) IN
                  Outcome(set_cached_data(cache, cache_key, result, t),
                          Response200(result), 1)
             ELSE Outcome(cache, HTTPException500(prefix, q.err), 1)

get_applicants_status_summary(cache, t, q) ==
    RecordsEndpoint(cache, "applicants_status_summary",
                    "Failed to fetch applicants status summary", t, q)

get_master_employee_view(cache, t, q) ==
    LET cache_key == "master_employee_view"
        cached_data == get_cached_data(cache, cache_key, t)
    IN  IF Truthy(cached_data)
        THEN Outcome(cache, Response200(cached_data), 0)
        ELSE IF q.ok
             THEN LET result == RecordsList(q.rows) IN
                  Outcome(set_cached_data(cache, cache_key, result, t),
                          Response200(EmployeesResult(result.rows)), 1)
             ELSE Outcome(cache,
                          HTTPException500Traceback(
                              "Failed to fetch master employee view", q.err),
                          1)

get_employment_types(cache, t, q) ==
    RecordsEndpoint(cache, "employment_types",
                    "Failed to fetch employment types", t, q)

get_department_analytics(cache, t, q) ==
    RecordsEndpoint(cache, "department_analytics",
                    "Failed to fetch department analytics", t, q)

get_role_department_validation(cache, t, q) ==
    RecordsEndpoint(cache, "role_department_validation",
                    "Failed to fetch role-department validation", t, q)

\* get_data_quality_analysis as a bug would have it: the first query's
\* result is stored before the second query runs
get_data_quality_analysis_eager(cache, t, q1, q2) ==
    LET cache_key == "data_quality_analysis"
        prefix == "Failed to fetch data quality analysis"
        cached_data == get_cached_data(cache, cache_key, t)
    IN  IF Truthy(cached_data)
        THEN Outcome(cache, Response200(cached_data), 0)
        ELSE IF ~q1.ok
        THEN Outcome(cache, HTTPException500(prefix, q1.err), 1)
        ELSE LET partial == set_cached_data(cache, cache_key,
                                QualityResult(q1.rows, "pending"), t) IN
             IF ~q2.ok
             THEN Outcome(partial, HTTPException500(prefix, q2.err), 2)
             ELSE IF q2.rows = <<>>
             THEN Outcome(partial, HTTPException500(prefix, "IndexError"), 2)
             ELSE LET quality_checks == QualityResult(q1.rows, q2.rows[1]) IN
                  Outcome(set_cached_data(cache, cache_key, quality_checks, t),
                          Response200(quality_checks), 2)

\* Two queries; df.to_dict('records')[0] raises IndexError on an empty frame.
get_data_quality_analysis(cache, t, q1, q2) ==
    LET cache_key == "data_quality_analysis"
        prefix == "Failed to fetch data quality analysis"
        cached_data == get_cached_data(cache, cache_key, t)
    IN  IF Truthy(cached_data)
        THEN Outcome(cache, Response200(cached_data), 0)
        ELSE IF ~q1.ok
        THEN Outcome(cache, HTTPException500(prefix, q1.err), 1)
        ELSE IF ~q2.ok
        THEN Outcome(cache, HTTPException500(prefix, q2.err), 2)
        ELSE IF q2.rows = <<>>
        THEN Outcome(cache, HTTPException500(prefix, "IndexError"), 2)
        ELSE LET quality_checks == QualityResult(q1.rows, q2.rows[1]) IN
             Outcome(set_cached_data(cache, cache_key, quality_checks, t),
                     Response200(quality_checks), 2)

\* get_hiring_success_analysis as a bug would have it: a key built per
\* request (the time of the request is part of it)
get_hiring_success_analysis_keyed(cache, t, q) ==
    RecordsEndpoint(cache, "hiring_success_analysis:" \o ToString(t),
                    "Failed to fetch hiring success analysis", t, q)

get_hiring_success_analysis(cache, t, q) ==
    RecordsEndpoint(cache, "hiring_success_analysis",
                    "Failed to fetch hiring success analysis", t, q)

\* get_employee_source_analysis as a copy-paste bug would have it: the
\* cache_key of the handler it was copied from
get_employee_source_analysis_copied(cache, t, q) ==
    RecordsEndpoint(cache, "hiring_success_analysis",
                    "Failed to fetch employee source analysis", t, q)

get_employee_source_analysis(cache, t, q) ==
    RecordsEndpoint(cache, "employee_source_analysis",
                    "Failed to fetch employee source analysis", t, q)

\* The routes (@app.get) with a cache.
Endpoints ==
    { "hiring-metrics", "applicants/status-summary", "master-employee-view",
      "employment-types", "department-analytics", "role-department-validation",
      "data-quality-analysis", "hiring-success-analysis",
      "employee-source-analysis" }

\* The cache_key each handler sets on its first line.
CacheKeyOf(ep) ==
    CASE ep = "hiring-metrics" -> "hiring_metrics"
      [] ep = "applicants/status-summary" -> "applicants_status_summary"
      [] ep = "master-employee-view" -> "master_employee_view"
      [] ep = "employment-types" -> "employment_types"
      [] ep = "department-analytics" -> "department_analytics"
      [] ep = "role-department-validation" -> "role_department_validation"
      [] ep = "data-quality-analysis" -> "data_quality_analysis"
      [] ep = "hiring-success-analysis" -> "hiring_success_analysis"
      [] ep = "employee-source-analysis" -> "employee_source_analysis"

\* The number of SQL queries in the handler's try block.
QueriesOf(ep) == IF ep = "data-quality-analysis" THEN 2 ELSE 1

\* What the database answers to the queries of one run of the handler.
QueryInputs(ep) ==
    IF QueriesOf(ep) = 2
    THEN QueryOutcomes \X QueryOutcomes
    ELSE {<<q, q>> : q \in QueryOutcomes}

\* FastAPI's routing: the handler of the path runs on the request.
Dispatch(ep, cache, t, q1, q2) ==
    CASE ep = "hiring-metrics" -> get_hiring_metrics(cache, t, q1)
      [] ep = "applicants/status-summary" -> get_applicants_status_summary(cache, t, q1)
      [] ep = "master-employee-view" -> get_master_employee_view(cache, t, q1)
      [] ep = "employment-types" -> get_employment_types(cache, t, q1)
      [] ep = "department-analytics" -> get_department_analytics(cache, t, q1)
      [] ep = "role-department-validation" -> get_role_department_validation(cache, t, q1)
      [] ep = "data-quality-analysis" -> get_data_quality_analysis(cache, t, q1, q2)
      [] ep = "hiring-success-analysis" -> get_hiring_success_analysis(cache, t, q1)
      [] ep = "employee-source-analysis" -> get_employee_source_analysis(cache, t, q1)

\* One request: the dependency, then the handler body.
Serve(ep, cache, devMode, credentials, t, q1, q2) ==
    IF get_current_user(devMode, credentials)
    THEN Dispatch(ep, cache, t, q1, q2)
    ELSE Outcome(cache, Response401, 0)

---------------------------------------------------------------------------
(* Spec: the endpoints, one request at a time *)

\* The error the database raised in a run that executed `queries` queries.
RaisedBy(queries, q1, q2) ==
    IF queries >= 1 /\ ~q1.ok THEN q1.err
    ELSE IF queries >= 2 /\ ~q2.ok THEN q2.err
    ELSE ""

\* The last successful fetch of a key as its caller saw it: when it completed
\* and the response it was given.
NoFetch == [known |-> FALSE, t |-> 0, body |-> None]
Fetch(t, body) == [known |-> TRUE, t |-> t, body |-> body]
FetchOf(h, key) == IF key \in DOMAIN h THEN h[key] ELSE NoFetch

Init ==
    /\ now = 0
    /\ CACHE = EmptyCache
    /\ DEV_MODE \in BOOLEAN
    /\ last = NoOp
    /\ hist = NoHist
    /\ nreq = 0
    /\ thr = NoThreads
    /\ ExtInit

Request(ep) ==
    /\ nreq < MaxRequests
    /\ \E credentials \in Credentials, q \in QueryInputs(ep) :
          LET q1 == q[1]
              q2 == q[2]
              out == Serve(ep, CACHE, DEV_MODE, credentials, now, q1, q2)
              key == CacheKeyOf(ep)
              fetched == out.resp.status = 200 /\ out.queries >= 1
          IN  /\ CACHE' = out.cache
              /\ last' = [op |-> "request", endpoint |-> ep, key |-> key,
                          at |-> now, resp |-> out.resp,
                          queries |-> out.queries,
                          raised |-> RaisedBy(out.queries, q1, q2),
                          prior |-> FetchOf(hist, key)]
              /\ hist' = IF fetched
                         THEN (key :> Fetch(now, out.resp.body)) @@ hist
                         ELSE hist
    /\ nreq' = nreq + 1
    /\ UNCHANGED <<now, DEV_MODE, thr, ext>>

\* time passes between two requests
Wait == Elapse(MaxUptime)

Next ==
    \/ Wait
    \/ \E ep \in Endpoints : Request(ep)

Spec == Init /\ [][Next]_vars

---------------------------------------------------------------------------
(* The endpoints' use of the cache, checked under Spec *)

LastRequest == last.op = "request"

\* the last request was answered from the cache
CacheHit == LastRequest /\ last.resp.status = 200 /\ last.queries = 0

\* C6 (Transparency): the response of a cache hit is the response that was
\* given to the request whose fetch stored the entry.
C6_Transparency ==
    CacheHit => (last.prior.known /\ last.resp.body = last.prior.body)

\* C7 (No recomputation inside the window): a request that arrives less
\* than CACHE_DURATION after a successful fetch of the same endpoint, and
\* passes authentication, executes no SQL query, whatever value was fetched.
C7_NoRecomputation ==
    ( /\ LastRequest
      /\ last.resp.status # 401
      /\ last.prior.known
      /\ last.at - last.prior.t < CACHE_DURATION )
    => (last.queries = 0)

C9_ErrorPropagates ==
    (LastRequest /\ last.raised # "") =>
        /\ last.queries >= 1
        /\ last.resp.status = 500
        /\ last.resp.body = None
        /\ last.resp.detail.err = last.raised
        /\ last.resp.detail.prefix # ""

\* a query fails while the store holds an expired entry of the same key,
\* which is not given in place of the error
C9_Witness ==
    /\ LastRequest /\ last.raised # ""
    /\ last.prior.known
    /\ last.key \in DOMAIN CACHE
    /\ Truthy(EntryData(CACHE[last.key]))
    /\ last.resp.status = 500

\* C15 (Entry lifecycle through the endpoints): a request creates the entry
\* of its key only by a successful fetch, and a successful fetch writes over
\* an entry that exists only when that entry has expired; a still-fresh
\* entry is never overwritten, for any stored value.
C15_Lifecycle ==
    [][ (nreq' = nreq + 1) =>
          LET k == last'.key
              fetched == last'.resp.status = 200 /\ last'.queries >= 1
          IN  /\ (k \notin DOMAIN CACHE /\ k \in DOMAIN CACHE') => fetched
              /\ (k \in DOMAIN CACHE /\ fetched) =>
                    (now - EntryTimestamp(CACHE[k]) >= CACHE_DURATION) ]_vars

\* C16 (The store starts empty and its key set only grows): CACHE has no
\* entry when the process starts, and a key that has an entry has one in
\* every later state: no step removes a key.
C16_KeysOnlyGrow ==
    /\ CACHE = EmptyCache
    /\ [][DOMAIN CACHE \subseteq DOMAIN CACHE']_vars

\* the store holds an expired entry next to a fresh one of another key
C16_Witness ==
    \E k1 \in DOMAIN CACHE, k2 \in DOMAIN CACHE :
        /\ k1 # k2
        /\ now - EntryTimestamp(CACHE[k1]) >= CACHE_DURATION
        /\ now - EntryTimestamp(CACHE[k2]) < CACHE_DURATION

\* C17 (A stored value is immutable): the entry of a key changes only in the
\* step of a request for that key that ran all its queries and answered 200
\* (a write); every other step, a cache hit included, leaves every entry as
\* it was, and a hit returns the value the entry holds.
C17_ValueImmutable ==
    [][ /\ \A k \in DOMAIN CACHE :
              (CACHE'[k] # CACHE[k]) =>
                  /\ nreq' = nreq + 1
                  /\ last'.key = k
                  /\ last'.resp.status = 200
                  /\ last'.queries = QueriesOf(last'.endpoint)
                  /\ EntryTimestamp(CACHE'[k]) = now
        /\ (nreq' = nreq + 1 /\ last'.resp.status = 200 /\ last'.queries = 0) =>
              /\ CACHE' = CACHE
              /\ last'.resp.body = EntryData(CACHE[last'.key]) ]_vars

\* a hit some time after the write returned the value the entry still holds
C17_Witness ==
    /\ CacheHit
    /\ last.key \in DOMAIN CACHE
    /\ EntryTimestamp(CACHE[last.key]) < last.at
    /\ last.resp.body = EntryData(CACHE[last.key])
    /\ Truthy(EntryData(CACHE[last.key]))

\* C18 (Keys are a deterministic function of the request): no two endpoints
\* have the same key; a request reads and writes the one key of its
\* endpoint: it leaves the entries of all other keys as they were, a fetch
\* stores under its own key, and a hit happens exactly when its own key
\* holds a fresh value and returns that value, never the value of another
\* report.
C18_KeyPerEndpoint ==
    [][ (nreq' = nreq + 1) =>
          LET ep == last'.endpoint
              k == CacheKeyOf(ep)
              hit == last'.resp.status = 200 /\ last'.queries = 0
              fetched == last'.resp.status = 200 /\ last'.queries >= 1
          IN  /\ \A e \in Endpoints \ {ep} : CacheKeyOf(e) # k
              /\ DOMAIN CACHE' \subseteq DOMAIN CACHE \cup {k}
              /\ \A o \in DOMAIN CACHE \ {k} : CACHE'[o] = CACHE[o]
              /\ fetched => (k \in DOMAIN CACHE'
                             /\ EntryTimestamp(CACHE'[k]) = now)
              /\ hit => /\ k \in DOMAIN CACHE
                        /\ now - EntryTimestamp(CACHE[k]) < CACHE_DURATION
                        /\ last'.resp.body = EntryData(CACHE[k])
              /\ (last'.resp.status # 401 /\ ~hit) =>
                    ~ ( /\ k \in DOMAIN CACHE
                        /\ now - EntryTimestamp(CACHE[k]) < CACHE_DURATION
                        /\ Truthy(EntryData(CACHE[k])) ) ]_vars

\* a request ran its query and stored under its own key while the store
\* held a fresh, non-empty value of another report
C18_Witness ==
    /\ LastRequest /\ last.resp.status = 200 /\ last.queries >= 1
    /\ last.key \in DOMAIN CACHE
    /\ \E o \in DOMAIN CACHE \ {last.key} :
          /\ EntryTimestamp(CACHE[o]) <= last.at
          /\ last.at - EntryTimestamp(CACHE[o]) < CACHE_DURATION
          /\ Truthy(EntryData(CACHE[o]))

\* C20 (One fixed TTL): after every step, a failed request included, the
\* window get_cached_data applies to each entry of the store is
\* CACHE_DURATION (the entry is returned up to CACHE_DURATION - 1 seconds
\* after its timestamp and missed from CACHE_DURATION on), the same for
\* every key; and a request finds a non-empty entry of its key fresh exactly
\* when less than CACHE_DURATION has passed since its timestamp.
C20_OneFixedTTL ==
    [][ /\ \A k \in DOMAIN CACHE' :
              LET ts == EntryTimestamp(CACHE'[k]) IN
              /\ get_cached_data(CACHE', k, ts) = EntryData(CACHE'[k])
              /\ get_cached_data(CACHE', k, ts + CACHE_DURATION - 1)
                     = EntryData(CACHE'[k])
              /\ get_cached_data(CACHE', k, ts + CACHE_DURATION) = None
        /\ ( /\ nreq' = nreq + 1
             /\ last'.resp.status # 401
             /\ last'.key \in DOMAIN CACHE
             /\ Truthy(EntryData(CACHE[last'.key])) )
           => ( (last'.queries = 0)
                  <=> (now - EntryTimestamp(CACHE[last'.key]) < CACHE_DURATION) )
      ]_vars

\* a request arrived exactly CACHE_DURATION after the entry of its key was
\* written, missed, and failed; the entry is still in the store
C20_Witness ==
    /\ LastRequest /\ last.resp.status = 500
    /\ last.key \in DOMAIN CACHE
    /\ last.at - EntryTimestamp(CACHE[last.key]) = CACHE_DURATION
    /\ Truthy(EntryData(CACHE[last.key]))

\* the pair of the request is one of USERS
Matches(credentials) ==
    \E u \in DOMAIN USERS : credentials = BasicAuth(u, USERS[u])

\* C22 (Authentication gates the cache when DEV_MODE is false): in every
\* reachable state with DEV_MODE false, whatever the store holds, a request
\* to a cached endpoint whose pair is not one of USERS ends with 401, runs no
\* query and leaves CACHE as it is, and a request with a matching pair gets
\* what the handler body gives; a request that was answered 401 has received
\* no body, executed no query and left CACHE unchanged.
C22_AuthGatesCache ==
    /\ [] ( ~DEV_MODE =>
              \A ep \in Endpoints, credentials \in Credentials :
                \A q \in QueryInputs(ep) :
                  LET out == Serve(ep, CACHE, DEV_MODE, credentials, now,
                                   q[1], q[2])
                  IN  IF Matches(credentials)
                      THEN /\ out = Dispatch(ep, CACHE, now, q[1], q[2])
                           /\ out.resp.status # 401
                      ELSE /\ out.resp.status = 401
                           /\ out.resp.body = None
                           /\ out.queries = 0
                           /\ out.cache = CACHE )
    /\ [][ (nreq' = nreq + 1 /\ last'.resp.status = 401) =>
              /\ ~DEV_MODE
              /\ CACHE' = CACHE
              /\ last'.queries = 0
              /\ last'.resp.body = None ]_vars

\* a request was turned away with 401 while the store held a fresh,
\* non-empty value for its endpoint
C22_Witness ==
    /\ ~DEV_MODE
    /\ LastRequest /\ last.resp.status = 401
    /\ last.key \in DOMAIN CACHE
    /\ last.at - EntryTimestamp(CACHE[last.key]) < CACHE_DURATION
    /\ Truthy(EntryData(CACHE[last.key]))

---------------------------------------------------------------------------
(* RaceSpec: get_cached_data and set_cached_data called from parallel      *)
(* threads. A thread runs one call, one interpreter step at a time: each   *)
(* read of the clock and each access to the dict is one step (a dict       *)
(* lookup or store is atomic in CPython), and other threads and the clock  *)
(* may move between two steps.                                             *)

Threads == {"t1", "t2", "t3"}

NoEntry == <<0, None>>
IdleThread ==
    [pc |-> "idle", op |-> "none", key |-> "", data |-> None, t |-> 0,
     entry |-> NoEntry, ret |-> None]

\* hist is the set of set_cached_data calls that have read the clock: the
\* key and data they were given and the time they read.
SetCall(k, v, t) == [key |-> k, data |-> v, t |-> t]

RaceInit ==
    /\ now = 0
    /\ CACHE = EmptyCache
    /\ DEV_MODE = TRUE
    /\ last = NoOp
    /\ hist = {}
    /\ nreq = 0
    /\ thr = [i \in Threads |-> IdleThread]
    /\ ExtInit

\* a thread enters set_cached_data(k, v)
BeginSet(i, k, v) ==
    /\ thr[i].pc = "idle"
    /\ thr' = [thr EXCEPT ![i] = [@ EXCEPT !.pc = "set_now", !.op = "set",
                                            !.key = k, !.data = v]]
    /\ UNCHANGED <<now, CACHE, DEV_MODE, last, hist, nreq, ext>>

\* datetime.now() of line 91
SetReadClock(i) ==
    /\ thr[i].pc = "set_now"
    /\ thr' = [thr EXCEPT ![i] = [@ EXCEPT !.pc = "set_store", !.t = now]]
    /\ hist' = hist \cup {SetCall(thr[i].key, thr[i].data, now)}
    /\ UNCHANGED <<now, CACHE, DEV_MODE, last, nreq, ext>>

\* CACHE[key] = (timestamp read before, data)
SetStore(i) ==
    /\ thr[i].pc = "set_store"
    /\ CACHE' = set_cached_data(CACHE, thr[i].key, thr[i].data, thr[i].t)
    /\ thr' = [thr EXCEPT ![i] = [@ EXCEPT !.pc = "done"]]
    /\ UNCHANGED <<now, DEV_MODE, last, hist, nreq, ext>>

\* a thread enters get_cached_data(k)
BeginGet(i, k) ==
    /\ thr[i].pc = "idle"
    /\ thr' = [thr EXCEPT ![i] = [@ EXCEPT !.pc = "get_contains", !.op = "get",
                                            !.key = k]]
    /\ UNCHANGED <<now, CACHE, DEV_MODE, last, hist, nreq, ext>>

\* if key in CACHE
GetContains(i) ==
    /\ thr[i].pc = "get_contains"
    /\ thr' = [thr EXCEPT ![i] =
                  IF thr[i].key \in DOMAIN CACHE
                  THEN [@ EXCEPT !.pc = "get_load"]
                  ELSE [@ EXCEPT !.pc = "done", !.ret = None]]
    /\ UNCHANGED <<now, CACHE, DEV_MODE, last, hist, nreq, ext>>

\* timestamp, data = CACHE[key]; a key that is gone by now raises KeyError
GetLoad(i) ==
    /\ thr[i].pc = "get_load"
    /\ thr' = [thr EXCEPT ![i] =
                  IF thr[i].key \in DOMAIN CACHE
                  THEN [@ EXCEPT !.pc = "get_compare",
                                 !.entry = CACHE[thr[i].key]]
                  ELSE [@ EXCEPT !.pc = "raised"]]
    /\ UNCHANGED <<now, CACHE, DEV_MODE, last, hist, nreq, ext>>

\* if datetime.now() - timestamp < timedelta(seconds=CACHE_DURATION)
GetCompare(i) ==
    /\ thr[i].pc = "get_compare"
    /\ thr' = [thr EXCEPT ![i] =
                  [@ EXCEPT !.pc = "done",
                            !.ret = get_cached_data(thr[i].key :> thr[i].entry,
                                                    thr[i].key, now)]]
    /\ UNCHANGED <<now, CACHE, DEV_MODE, last, hist, nreq, ext>>

RaceNext ==
    \/ Wait
    \/ \E i \in Threads, k \in CacheKeys, v \in CacheValues : BeginSet(i, k, v)
    \/ \E i \in Threads : SetReadClock(i)
    \/ \E i \in Threads : SetStore(i)
    \/ \E i \in Threads, k \in CacheKeys : BeginGet(i, k)
    \/ \E i \in Threads : GetContains(i)
    \/ \E i \in Threads : GetLoad(i)
    \/ \E i \in Threads : GetCompare(i)

RaceSpec == RaceInit /\ [][RaceNext]_vars

---------------------------------------------------------------------------
(* The cache under parallel calls, checked under RaceSpec *)

SettersDone(k) ==
    {i \in Threads : thr[i].op = "set" /\ thr[i].key = k /\ thr[i].pc = "done"}
SettersOf(k) ==
    {i \in Threads : thr[i].op = "set" /\ thr[i].key = k}

\* the entries the set_cached_data(k, _) calls made so far have composed
Composed(k) == {<<c.t, c.data>> : c \in {c \in hist : c.key = k}}

\* C10 (Idempotent overwrite under race): the entry of a key is always one
\* whole <<timestamp, data>> pair composed by one set_cached_data call for
\* that key; once two set_cached_data(k, v) calls with the same v have
\* completed, and no call for k carried another value, the store holds for
\* k an entry whose value is v; and a get_cached_data(k), during or after
\* them, returns None or the data of one such call, never anything else.
C10_IdempotentRace ==
    /\ \A k \in DOMAIN CACHE : CACHE[k] \in Composed(k)
    /\ \A k \in CacheKeys, v \in CacheValues :
          ( /\ Cardinality(SettersDone(k)) >= 2
            /\ \A i \in SettersOf(k) : thr[i].data = v )
          => /\ k \in DOMAIN CACHE
             /\ EntryData(CACHE[k]) = v
             /\ \E i \in SettersDone(k) : EntryTimestamp(CACHE[k]) = thr[i].t
    /\ \A i \in Threads :
          /\ thr[i].pc # "raised"
          /\ (thr[i].op = "get" /\ thr[i].pc = "done") =>
                \/ thr[i].ret = None
                \/ \E c \in hist : c.key = thr[i].key /\ c.data = thr[i].ret
          /\ (thr[i].op = "get" /\ thr[i].pc = "get_compare") =>
                thr[i].entry \in Composed(thr[i].key)

\* two calls with the same key and value have interleaved (the one that
\* read the clock later stored first), and a third thread has read the value
C10_Witness ==
    \E a \in Threads, b \in Threads, g \in Threads :
        /\ a # b /\ g # a /\ g # b
        /\ thr[a].op = "set" /\ thr[a].pc = "done"
        /\ thr[b].op = "set" /\ thr[b].pc = "done"
        /\ thr[a].key = thr[b].key /\ thr[a].data = thr[b].data
        /\ thr[a].t < thr[b].t
        /\ CACHE[thr[a].key] = <<thr[a].t, thr[a].data>>
        /\ thr[g].op = "get" /\ thr[g].pc = "done"
        /\ thr[g].key = thr[a].key /\ thr[g].ret = thr[a].data

---------------------------------------------------------------------------
(* LoopSpec: requests that are in flight together. Every handler is an     *)
(* "async def" whose body has no await, and uvicorn.run serves the app on  *)
(* one event loop: once the loop has entered a handler it runs it to its   *)
(* return before it enters another. A request is accepted (pending), then  *)
(* entered (the cache lookup), then, on a miss, completed (the queries,    *)
(* the store and the return); the clock may move while the queries run.    *)

InFlight == {"a", "b"}

IdleRequest ==
    [pc |-> "idle", endpoint |-> "", with |-> {}, queries |-> 0,
     stored |-> FALSE, rows |-> <<>>, at |-> 0, status |-> 0, seq |-> 0]

LoopInit ==
    /\ now = 0
    /\ CACHE = EmptyCache
    /\ DEV_MODE = TRUE
    /\ last = NoOp
    /\ hist = NoHist
    /\ nreq = 0
    /\ thr = [r \in InFlight |-> IdleRequest]
    /\ ExtInit

\* the requests accepted and not yet answered
Open == {r \in InFlight : thr[r].pc \in {"pending", "fetch"}}

\* the event loop is inside no handler
LoopFree == \A r \in InFlight : thr[r].pc # "fetch"

\* the event loop as a thread pool would be: a handler is entered whatever
\* the others are doing
EnterAllowed_threadpool(r) == thr[r].pc = "pending"

\* the event loop enters the handler of a pending request when it is free
EnterAllowed(r) == thr[r].pc = "pending" /\ LoopFree

\* a request for the endpoint is accepted
Arrive(r, ep) ==
    /\ thr[r].pc = "idle"
    /\ thr' = [x \in InFlight |->
                 IF x = r
                 THEN [thr[r] EXCEPT !.pc = "pending", !.endpoint = ep,
                                     !.with = Open]
                 ELSE IF x \in Open
                 THEN [thr[x] EXCEPT !.with = @ \cup {r}]
                 ELSE thr[x]]
    /\ UNCHANGED <<now, CACHE, DEV_MODE, last, hist, nreq, ext>>

\* the handler runs up to "if cached_data: return cached_data"
Enter(r) ==
    /\ EnterAllowed(r)
    /\ LET cached_data == get_cached_data(CACHE, CacheKeyOf(thr[r].endpoint), now)
       IN  thr' = [thr EXCEPT ![r] =
                     IF Truthy(cached_data)
                     THEN [@ EXCEPT !.pc = "done", !.status = 200, !.at = now,
                                    !.rows = cached_data.rows]
                     ELSE [@ EXCEPT !.pc = "fetch"]]
    /\ UNCHANGED <<now, CACHE, DEV_MODE, last, hist, nreq, ext>>

\* the handler runs from its try block to its return
Complete(r) ==
    /\ thr[r].pc = "fetch"
    /\ \E q \in QueryInputs(thr[r].endpoint) :
          LET out == Dispatch(thr[r].endpoint, CACHE, now, q[1], q[2])
              ok == out.resp.status = 200
          IN  /\ CACHE' = out.cache
              /\ thr' = [thr EXCEPT ![r] =
                           [@ EXCEPT !.pc = "done", !.status = out.resp.status,
                                     !.queries = out.queries, !.stored = ok,
                                     !.rows = IF ok THEN out.resp.body.rows
                                                    ELSE <<>>,
                                     !.at = now, !.seq = nreq + 1]]
    /\ nreq' = nreq + 1
    /\ UNCHANGED <<now, DEV_MODE, last, hist, ext>>

LoopNext ==
    \/ Wait
    \/ \E r \in InFlight, ep \in Endpoints : Arrive(r, ep)
    \/ \E r \in InFlight : Enter(r)
    \/ \E r \in InFlight : Complete(r)

LoopSpec == LoopInit /\ [][LoopNext]_vars

---------------------------------------------------------------------------
(* Requests in flight together, checked under LoopSpec *)

\* two requests for the same endpoint that were open at the same time
Together(a, b) ==
    /\ a # b
    /\ b \in thr[a].with
    /\ thr[a].endpoint = thr[b].endpoint

\* the request ran its queries and called set_cached_data
Stored(r) == thr[r].pc = "done" /\ thr[r].stored /\ thr[r].queries >= 1

\* the handlers whose result is a dict with fixed keys; the others store the
\* list of records itself
DictEndpoints == {"hiring-metrics", "data-quality-analysis"}

\* the request stored an empty list
StoredEmpty(r) ==
    Stored(r) /\ thr[r].rows = <<>> /\ thr[r].endpoint \notin DictEndpoints

\* C11 as claimed (no single-flight by interleaving): while one request is
\* between its cache miss and its set_cached_data, a concurrent request for
\* the same endpoint can run its own lookup, miss, and go on to query and
\* store as well.
C11_NoSingleFlight ==
    \A a \in InFlight, b \in InFlight :
        (a # b /\ thr[a].pc = "fetch" /\ thr[b].pc = "pending"
           /\ thr[a].endpoint = thr[b].endpoint)
        => ENABLED Enter(b)

\* C11 as amended: no code de-duplicates requests, but the event loop is in
\* at most one handler at a time, so of two concurrent requests for the same
\* endpoint the second does its lookup after the first has returned. It
\* executes no query when the first stored a non-empty value less than
\* CACHE_DURATION before; both query and store only when the value the first
\* stored is empty or has expired; and when both have stored, the store
\* holds for the key the entry of the later writer alone.
C11_Serialized ==
    /\ \A a \in InFlight, b \in InFlight :
          (thr[a].pc = "fetch" /\ thr[b].pc = "fetch") => (a = b)
    /\ \A a \in InFlight, b \in InFlight :
          (Together(a, b) /\ Stored(a) /\ thr[b].pc = "done"
             /\ thr[b].seq = 0 /\ thr[b].status = 200)
          => /\ ~StoredEmpty(a)
             /\ thr[b].at - thr[a].at < CACHE_DURATION
             /\ thr[b].rows = thr[a].rows
    /\ \A a \in InFlight, b \in InFlight :
          (Together(a, b) /\ Stored(a) /\ Stored(b) /\ thr[a].seq < thr[b].seq)
          => LET key == CacheKeyOf(thr[b].endpoint) IN
             /\ \/ StoredEmpty(a)
                \/ thr[b].at - thr[a].at >= CACHE_DURATION
             /\ DOMAIN CACHE = {key}
             /\ EntryTimestamp(CACHE[key]) = thr[b].at
             /\ EntryData(CACHE[key]).rows = thr[b].rows

\* two requests for the same endpoint, open together, have both run the
\* query and both stored, the second inside the window of the first
C11_Witness ==
    \E a \in InFlight, b \in InFlight :
        /\ Together(a, b) /\ Stored(a) /\ Stored(b)
        /\ thr[a].seq < thr[b].seq
        /\ thr[a].at < thr[b].at
        /\ thr[b].at - thr[a].at < CACHE_DURATION
        /\ thr[b].rows # thr[a].rows

---------------------------------------------------------------------------
(* Totality of the cache functions, checked under RaceSpec *)

\* the next step of a thread that is inside a cache function
StepOf(i) ==
    \/ SetReadClock(i) \/ SetStore(i)
    \/ GetContains(i) \/ GetLoad(i) \/ GetCompare(i)

InCall(i) == thr[i].pc \notin {"idle", "done", "raised"}

\* C12 (Total and non-blocking): a thread inside get_cached_data or
\* set_cached_data can always take its next step, whatever the other threads
\* are doing, and a call can begin for every key in every state; no call
\* raises; a finished get_cached_data has returned None or a stored value,
\* and a finished set_cached_data has left an entry for its key.
C12_TotalNonBlocking ==
    \A i \in Threads :
        /\ InCall(i) => ENABLED StepOf(i)
        /\ (thr[i].pc = "idle") =>
              \A k \in CacheKeys : ENABLED BeginGet(i, k)
        /\ (thr[i].pc = "idle") =>
              \A k \in CacheKeys, v \in CacheValues : ENABLED BeginSet(i, k, v)
        /\ thr[i].pc # "raised"
        /\ (thr[i].op = "get" /\ thr[i].pc = "done") =>
              thr[i].ret \in CacheValues \cup {None}
        /\ (thr[i].op = "set" /\ thr[i].pc = "done") =>
              thr[i].key \in DOMAIN CACHE

\* a get_cached_data has finished with a value, read after a
\* set_cached_data for the same key had read the clock and before it stored
C12_Witness ==
    \E i \in Threads, j \in Threads :
        /\ thr[i].op = "set" /\ thr[i].pc = "set_store"
        /\ thr[j].op = "get" /\ thr[j].pc = "done" /\ thr[j].ret # None
        /\ thr[i].key = thr[j].key
        /\ thr[i].t < now
        /\ EntryTimestamp(thr[j].entry) = now


---------------------------------------------------------------------------
(* FillSpec: any sequence of requests, of any length, to the nine cached   *)
(* endpoints, with the clock standing still; only the store is observed.   *)

FillInit ==
    /\ now = 0
    /\ CACHE = EmptyCache
    /\ DEV_MODE \in BOOLEAN
    /\ last = NoOp
    /\ hist = NoHist
    /\ nreq = 0
    /\ thr = NoThreads
    /\ ExtInit

\* one request to ep, as Request, without a record of the response
Handle(ep) ==
    /\ \E credentials \in Credentials, q \in QueryInputs(ep) :
          CACHE' = Serve(ep, CACHE, DEV_MODE, credentials, now, q[1], q[2]).cache
    /\ UNCHANGED <<now, DEV_MODE, last, hist, nreq, thr, ext>>

FillNext == \E ep \in Endpoints : Handle(ep)

FillSpec == FillInit /\ [][FillNext]_vars

\* The cache_key literals of the nine handlers.
ReportKeys ==
    { "hiring_metrics", "applicants_status_summary", "master_employee_view",
      "employment_types", "department_analytics",
      "role_department_validation", "data_quality_analysis",
      "hiring_success_analysis", "employee_source_analysis" }

\* C19 (Bounded store): after any sequence of requests the key set of CACHE
\* is a subset of the nine report keys of the endpoints, so the store never
\* holds more than nine entries.
C19_BoundedStore ==
    /\ DOMAIN CACHE \subseteq ReportKeys
    /\ Cardinality(ReportKeys) = 9
    /\ Cardinality(DOMAIN CACHE) <= 9

\* every endpoint has stored: the store is full, one entry per report
C19_Witness ==
    /\ DOMAIN CACHE = {CacheKeyOf(ep) : ep \in Endpoints}
    /\ Cardinality(DOMAIN CACHE) = Cardinality(Endpoints)


---------------------------------------------------------------------------
(* HealthSpec: the cached endpoints and /health, one request at a time.    *)
(* src/api/main.py lines 93-109                                            *)

\* What "SELECT 1" through a new engine and connection comes to: a row, or
\* an exception of create_engine, connect, execute or fetchone.
ProbeOutcomes == {QueryOk(<<"1">>)} \cup {QueryRaises(e) : e \in QueryErrors}

\* the dict {"status": "healthy", "timestamp": now, "database": "connected",
\* "version": "1.0.0"}
HealthyResult(t) == PyVal("health", <<>>, <<"healthy", t, "connected">>)

\* health_check as a bug would have it: the answer is kept in the cache like
\* the reports' and given again while fresh
health_check_cached(cache, t, probe) ==
    LET cached_data == get_cached_data(cache, "health", t)
    IN  IF Truthy(cached_data)
        THEN Outcome(cache, Response200(cached_data), 0)
        ELSE IF probe.ok
             THEN Outcome(set_cached_data(cache, "health", HealthyResult(t), t),
                          Response200(HealthyResult(t)), 1)
             ELSE Outcome(cache,
                          HTTPException500("Health check failed", probe.err), 1)

\* health_check(): the probe, then the dict or the HTTPException
health_check(cache, t, probe) ==
    IF probe.ok
    THEN Outcome(cache, Response200(HealthyResult(t)), 1)
    ELSE Outcome(cache, HTTPException500("Health check failed", probe.err), 1)

\* GET /health (no dependency: the route takes no credentials)
Health ==
    /\ \E probe \in ProbeOutcomes :
          LET out == health_check(CACHE, now, probe)
          IN  /\ CACHE' = out.cache
              /\ last' = [op |-> "health", at |-> now, resp |-> out.resp,
                          queries |-> out.queries, probe |-> probe,
                          before |-> CACHE]
    /\ UNCHANGED <<now, DEV_MODE, hist, nreq, thr, ext>>

HealthNext ==
    \/ Wait
    \/ \E ep \in Endpoints : Request(ep)
    \/ Health

HealthSpec == Init /\ [][HealthNext]_vars

LastHealth == last.op = "health"

\* C23 (/health is independent of the cache): a call of /health leaves CACHE
\* as it was, runs its probe every time, and answers 200 with status healthy
\* exactly when the probe succeeded and 500 with the probe's error
\* otherwise; the answer is the one it would give with an empty store.
C23_HealthIndependent ==
    LastHealth =>
        /\ CACHE = last.before
        /\ last.queries = 1
        /\ (last.resp.status = 200) <=> last.probe.ok
        /\ last.probe.ok => (last.resp.body.extra[1] = "healthy"
                             /\ last.resp.body.extra[2] = last.at)
        /\ ~last.probe.ok => (/\ last.resp.status = 500
                              /\ last.resp.body = None
                              /\ last.resp.detail.err = last.probe.err)
        /\ last.resp = health_check(EmptyCache, last.at, last.probe).resp

\* the probe failed while the store held a fresh, non-empty report, and
\* /health answered 500
C23_Witness ==
    /\ LastHealth /\ ~last.probe.ok /\ last.resp.status = 500
    /\ \E k \in DOMAIN CACHE :
          /\ last.at - EntryTimestamp(CACHE[k]) < CACHE_DURATION
          /\ Truthy(EntryData(CACHE[k]))


---------------------------------------------------------------------------
(* PipeSpec: the batch loader, src/scripts/hr_data_pipeline.py. The script *)
(* is run from the command line up to MaxRuns times against one database;  *)
(* each step of run_advanced_pipeline is one action, and what the          *)
(* spreadsheet and the database answer is drawn from small sets.           *)

\* The keys of table_mappings, in the order of the dict.
TableNames == <<"Applicants", "Employees", "Employment Type">>
Tables == {TableNames[i] : i \in DOMAIN TableNames}

\* The relation that f"SELECT COUNT(*) FROM {table_name}" counts when
\* _load_base_data passes the key of table_mappings as table_name: the name
\* is neither quoted nor qualified, so the server folds it to lower case and
\* looks it up on the search path, and "Employment Type" reads as the
\* relation employment with the alias Type.
CountedRelation(table_name) ==
    CASE table_name = "Applicants" -> "applicants"
      [] table_name = "Employees" -> "employees"
      [] table_name = "Employment Type" -> "employment"

\* The relation df.to_sql(table_name.split('.')[-1].replace('"', ''),
\* schema='hr_analytics', if_exists='append') appends to: the key as it is
\* written, capitals and blank included, in schema hr_analytics (created on
\* the first append).
TargetRelation(table_name) ==
    CASE table_name = "Applicants" -> "hr_analytics.Applicants"
      [] table_name = "Employees" -> "hr_analytics.Employees"
      [] table_name = "Employment Type" -> "hr_analytics.Employment Type"

Relations ==
    {CountedRelation(t) : t \in Tables} \cup {TargetRelation(t) : t \in Tables}

\* Rows a counted relation may hold before the first run, and rows a sheet
\* may hold after drop_duplicates.
PriorRows == {0, 3}
SheetLengths == {2}

\* What happens to one sheet: pd.read_excel raises, _clean_dataframe raises,
\* the database raises inside _load_table_data, or nothing raises.
SheetOutcome(fails, rows) == [fails |-> fails, rows |-> rows]
SheetOutcomes ==
    {SheetOutcome(f, 0) : f \in {"read", "clean", "load"}}
        \cup {SheetOutcome("none", n) : n \in SheetLengths}

\* _load_table_data(df, table_name): the count, then the append when the
\* count is 0; an exception (the counted relation does not exist, the
\* connection fails) is logged and raised again.
_load_table_data(d, table_name, rows, raises) ==
    IF raises \/ CountedRelation(table_name) \notin DOMAIN d
    THEN [db |-> d, ret |-> 0, raised |-> TRUE]
    ELSE LET existing_count == d[CountedRelation(table_name)] IN
         IF existing_count > 0
         THEN [db |-> d, ret |-> existing_count, raised |-> FALSE]
         ELSE [db |-> [d EXCEPT ![TargetRelation(table_name)] = @ + rows],
               ret |-> rows, raised |-> FALSE]

TableResult(rows_loaded, status) ==
    [rows_loaded |-> rows_loaded, status |-> status]
ErrorMessage(about, stage) == [about |-> about, stage |-> stage]

\* The for loop of _load_base_data as a bug would have it: the first table
\* that fails ends the loop (the except clause around the loop instead of
\* inside it)
RECURSIVE LoadTables_break(_, _, _, _, _)
LoadTables_break(i, d, load_results, errors, inp) ==
    IF i > Len(TableNames)
    THEN [db |-> d, load_results |-> load_results, errors |-> errors]
    ELSE LET table_name == TableNames[i]
             o == inp[table_name]
             r == _load_table_data(d, table_name, o.rows, o.fails = "load")
         IN  IF o.fails \in {"read", "clean"} \/ r.raised
             THEN [db |-> d,
                   load_results |->
                       (table_name :> TableResult(0, "error")) @@ load_results,
                   errors |-> Append(errors, ErrorMessage(table_name, o.fails))]
             ELSE LoadTables_break(i + 1, r.db,
                      (table_name :> TableResult(r.ret, "success"))
                          @@ load_results,
                      errors, inp)

\* The for loop of _load_base_data from the i-th table on.
RECURSIVE LoadTables(_, _, _, _, _)
LoadTables(i, d, load_results, errors, inp) ==
    IF i > Len(TableNames)
    THEN [db |-> d, load_results |-> load_results, errors |-> errors]
    ELSE LET table_name == TableNames[i]
             o == inp[table_name]
         IN  IF o.fails \in {"read", "clean"}
             THEN LoadTables(i + 1, d,
                      (table_name :> TableResult(0, "error")) @@ load_results,
                      Append(errors, ErrorMessage(table_name, o.fails)), inp)
             ELSE LET r == _load_table_data(d, table_name, o.rows,
                                            o.fails = "load")
                  IN  IF r.raised
                      THEN LoadTables(i + 1, d,
                               (table_name :> TableResult(0, "error"))
                                   @@ load_results,
                               Append(errors,
                                      ErrorMessage(table_name, o.fails)), inp)
                      ELSE LoadTables(i + 1, r.db,
                               (table_name :> TableResult(r.ret, "success"))
                                   @@ load_results,
                               errors, inp)

\* _load_base_data(): the loop, then all(status == 'success').
_load_base_data(d, errors, inp) ==
    LET r == LoadTables(1, d, <<>>, errors, inp)
    IN  [db |-> r.db, load_summary |-> r.load_results, errors |-> r.errors,
         ret |-> \A t \in DOMAIN r.load_results :
                     r.load_results[t].status = "success"]


\* pipeline.pipeline_results['summary'] before _generate_enhanced_summary
NoSummary ==
    [load_success |-> FALSE, enhancement_success |-> FALSE,
     validation_success |-> FALSE, overall_success |-> FALSE, set |-> FALSE]

\* _generate_enhanced_summary as a bug would have it: any() for all()
_generate_enhanced_summary_any(load_success, enhancement_success, validation_success) ==
    [load_success |-> load_success,
     enhancement_success |-> enhancement_success,
     validation_success |-> validation_success,
     overall_success |->
         load_success \/ enhancement_success \/ validation_success,
     set |-> TRUE]

\* _generate_enhanced_summary: the summary dict (the report file it saves is
\* not modelled; save_enhanced_report catches its own exceptions)
_generate_enhanced_summary(load_success, enhancement_success, validation_success) ==
    [load_success |-> load_success,
     enhancement_success |-> enhancement_success,
     validation_success |-> validation_success,
     overall_success |->
         load_success /\ enhancement_success /\ validation_success,
     set |-> TRUE]

\* The process before main runs: n runs so far; first[t] is the number of
\* rows in the target of table t when a load of t first ended with success
\* (-1 before that).
NoProcess(n, first) ==
    [pc |-> "idle", mode |-> "", steps |-> <<>>, load_summary |-> <<>>,
     enhancement_summary |-> <<>>, validation_summary |-> FALSE,
     errors |-> <<>>, inp |-> <<>>, before |-> <<>>,
     load_success |-> FALSE, enhancement_success |-> FALSE,
     validation_success |-> FALSE, summary |-> NoSummary, exit_code |-> -1,
     n |-> n, first |-> first]

PipeInit ==
    /\ now = 0
    /\ CACHE = EmptyCache
    /\ DEV_MODE = TRUE
    /\ last = NoOp
    /\ hist = NoHist
    /\ nreq = 0
    /\ thr = NoThreads
    /\ \E present \in SUBSET {CountedRelation(t) : t \in Tables} :
          \E prior \in [present -> PriorRows] :
              db = [r \in present \cup {TargetRelation(t) : t \in Tables} |->
                       IF r \in present THEN prior[r] ELSE 0]
    /\ run = NoProcess(0, [t \in Tables |-> -1])

\* main(): the command line is parsed and the pipeline object is made, with
\* a new pipeline_results
Start(mode) ==
    /\ run.pc \in {"idle", "exited"}
    /\ run.n < MaxRuns
    /\ run' = [NoProcess(run.n + 1, run.first) EXCEPT
                  !.mode = mode,
                  !.pc = IF mode = "full" THEN "load" ELSE "validate"]
    /\ UNCHANGED <<db, api>>

\* STEP 1 as a bug would have it: a failed load ends the run with the
\* summary, the other steps are left out
LoadBaseData_abort ==
    /\ run.pc = "load"
    /\ \E inp \in [Tables -> SheetOutcomes] :
          LET r == _load_base_data(db, run.errors, inp)
          IN  /\ db' = r.db
              /\ run' = [run EXCEPT
                    !.pc = IF r.ret THEN "enhance" ELSE "summary",
                    !.steps = Append(@, "load"),
                    !.inp = inp,
                    !.before = db,
                    !.load_summary = r.load_summary,
                    !.errors = r.errors,
                    !.load_success = r.ret]
    /\ UNCHANGED api

\* STEP 1 of run_advanced_pipeline
LoadBaseData ==
    /\ run.pc = "load"
    /\ \E inp \in [Tables -> SheetOutcomes] :
          LET r == _load_base_data(db, run.errors, inp)
          IN  /\ db' = r.db
              /\ run' = [run EXCEPT
                    !.pc = "enhance",
                    !.steps = Append(@, "load"),
                    !.inp = inp,
                    !.before = db,
                    !.load_summary = r.load_summary,
                    !.errors = r.errors,
                    !.load_success = r.ret,
                    !.first = [t \in Tables |->
                        IF /\ @[t] = -1
                           /\ t \in DOMAIN r.load_summary
                           /\ r.load_summary[t].status = "success"
                        THEN r.db[TargetRelation(t)]
                        ELSE @[t]]]
    /\ UNCHANGED api

\* What the three parts of _apply_schema_enhancements return.
EnhancementOutcomes ==
    { [role_department_mapping |-> TRUE, master_employee_view |-> TRUE,
       enhanced_hiring_metrics |-> TRUE],
      [role_department_mapping |-> FALSE, master_employee_view |-> TRUE,
       enhanced_hiring_metrics |-> TRUE],
      [role_department_mapping |-> TRUE, master_employee_view |-> FALSE,
       enhanced_hiring_metrics |-> FALSE] }

\* STEP 2: the three parts run whatever the earlier ones returned; only
\* _create_role_department_mapping records its error. Its INSERT and UPDATE
\* change no row count of the relations modelled in db.
ApplySchemaEnhancements ==
    /\ run.pc = "enhance"
    /\ \E o \in EnhancementOutcomes :
          run' = [run EXCEPT
              !.pc = "validate",
              !.steps = Append(@, "enhance"),
              !.enhancement_summary = o,
              !.errors = IF o.role_department_mapping THEN @
                         ELSE Append(@, ErrorMessage("Role-department mapping",
                                                     "sql")),
              !.enhancement_success =
                  /\ o.role_department_mapping
                  /\ o.master_employee_view
                  /\ o.enhanced_hiring_metrics]
    /\ UNCHANGED <<db, api>>

\* STEP 3, and the whole of a --validate-only run, which then falls off the
\* end of main
ValidateEnhancedData ==
    /\ run.pc = "validate"
    /\ \E ok \in BOOLEAN :
          run' = [run EXCEPT
              !.pc = IF run.mode = "full" THEN "summary" ELSE "exited",
              !.steps = Append(@, "validate"),
              !.validation_summary = ok,
              !.errors = IF ok THEN @
                         ELSE Append(@, ErrorMessage("Enhanced data validation",
                                                     "sql")),
              !.validation_success = ok,
              !.exit_code = IF run.mode = "full" THEN @ ELSE 0]
    /\ UNCHANGED <<db, api>>

\* the last statement of run_advanced_pipeline before its return
GenerateSummary ==
    /\ run.pc = "summary"
    /\ run' = [run EXCEPT
          !.pc = "exit",
          !.steps = Append(@, "summary"),
          !.summary = _generate_enhanced_summary(run.load_success,
                          run.enhancement_success, run.validation_success)]
    /\ UNCHANGED <<db, api>>

\* main() after run_advanced_pipeline: sys.exit(0) or sys.exit(1)
Exit ==
    /\ run.pc = "exit"
    /\ run' = [run EXCEPT
          !.pc = "exited",
          !.exit_code = IF run.summary.overall_success THEN 0 ELSE 1]
    /\ UNCHANGED <<db, api>>

PipeNext ==
    \/ \E mode \in {"full", "validate-only"} : Start(mode)
    \/ LoadBaseData
    \/ ApplySchemaEnhancements
    \/ ValidateEnhancedData
    \/ GenerateSummary
    \/ Exit

PipeSpec == PipeInit /\ [][PipeNext]_vars

PipeTypeOK == run.pc \in {"idle", "load", "enhance", "validate", "summary",
                          "exit", "exited"}


---------------------------------------------------------------------------
(* The batch loader, checked under PipeSpec *)

FullRun == run.mode = "full"
Steps == <<"load", "enhance", "validate", "summary">>

\* C21 (The batch pipeline is one-shot): in a full run the steps taken so
\* far are always a beginning of load, enhancement, validation, summary, each
\* at most once and in this order, and when run_advanced_pipeline has
\* returned all four have run, whatever the earlier steps returned; no step
\* is run a second time.
C21_OneShot ==
    FullRun =>
        /\ Len(run.steps) <= Len(Steps)
        /\ run.steps = SubSeq(Steps, 1, Len(run.steps))
        /\ (run.pc \in {"exit", "exited"}) => (run.steps = Steps)
        /\ (run.pc = "load") <=> (run.steps = <<>>)
        /\ (run.pc = "enhance") <=> (run.steps = <<"load">>)
        /\ (run.pc = "validate") <=> (run.steps = <<"load", "enhance">>)

\* the load failed, and enhancement, validation and summary ran all the same
C21_Witness ==
    /\ FullRun /\ run.pc = "exited"
    /\ ~run.load_success
    /\ run.steps = Steps
    /\ run.validation_success

\* C24 (Pipeline outcome): once the summary is written, overall_success is
\* true exactly when the three steps all returned success; a full run exits
\* with code 0 exactly when overall_success is true and with code 1
\* otherwise.
C24_Outcome ==
    /\ run.summary.set =>
          /\ run.summary.overall_success <=>
                (run.load_success /\ run.enhancement_success
                    /\ run.validation_success)
          /\ run.summary.load_success = run.load_success
    /\ (FullRun /\ run.pc = "exited") =>
          /\ run.summary.set
          /\ run.exit_code \in {0, 1}
          /\ (run.exit_code = 0) <=> run.summary.overall_success
          /\ (run.exit_code = 0) <=>
                (run.load_success /\ run.enhancement_success
                    /\ run.validation_success)

\* load and validation succeeded, enhancement did not: exit code 1
C24_Witness ==
    /\ FullRun /\ run.pc = "exited"
    /\ run.load_success /\ run.validation_success
    /\ ~run.enhancement_success
    /\ ~run.summary.overall_success
    /\ run.exit_code = 1

\* all three succeeded: exit code 0
C24_WitnessSuccess ==
    /\ FullRun /\ run.pc = "exited"
    /\ run.summary.overall_success
    /\ run.exit_code = 0

LoadDone == FullRun /\ run.steps # <<>>
FailedTables == {t \in Tables : run.inp[t].fails # "none"}
MessagesAbout(t) ==
    LET About(m) == m.about = t IN Len(SelectSeq(run.errors, About))

\* C25 (Per-table failure isolation in _load_base_data): after the load
\* step, every one of the three tables has a result; a table whose read,
\* clean or load failed has status error with rows_loaded 0 and exactly one
\* message in errors; a table after a failed one is loaded as if nothing had
\* failed; the step returned True exactly when all three have status
\* success.
C25_FailureIsolation ==
    LoadDone =>
        /\ DOMAIN run.load_summary = Tables
        /\ \A t \in Tables :
              IF t \in FailedTables
                 \/ CountedRelation(t) \notin DOMAIN run.before
              THEN /\ run.load_summary[t] = TableResult(0, "error")
                   /\ MessagesAbout(t) = 1
                   /\ db[TargetRelation(t)] = run.before[TargetRelation(t)]
              ELSE /\ run.load_summary[t].status = "success"
                   /\ MessagesAbout(t) = 0
                   /\ (run.before[CountedRelation(t)] = 0) =>
                         /\ run.load_summary[t].rows_loaded = run.inp[t].rows
                         /\ db[TargetRelation(t)]
                               = run.before[TargetRelation(t)] + run.inp[t].rows
        /\ run.load_success <=>
              \A t \in Tables : run.load_summary[t].status = "success"

\* the first table failed to read and the third was still loaded
C25_Witness ==
    /\ LoadDone
    /\ run.inp[TableNames[1]].fails = "read"
    /\ run.load_summary[TableNames[1]].status = "error"
    /\ run.load_summary[TableNames[3]].status = "success"
    /\ db[TargetRelation(TableNames[3])]
           > run.before[TargetRelation(TableNames[3])]
    /\ ~run.load_success

\* C26 (Re-running the load does not duplicate rows): a load changes the
\* relation it appends to only when that relation is empty, and the number
\* of rows of the relation after any number of runs is its number after the
\* first successful load of its table.
C26_NoDuplicateRows ==
    /\ \A t \in Tables :
          (run.first[t] # -1) => (db[TargetRelation(t)] = run.first[t])
    /\ LoadDone =>
          \A t \in Tables :
              (db[TargetRelation(t)] # run.before[TargetRelation(t)])
                  => (run.before[TargetRelation(t)] = 0)


---------------------------------------------------------------------------
(* KpiSpec: calculate_core_kpis of src/visualizations/dashboard.py lines   *)
(* 259-299, applied to lists of at most MaxMetrics metrics. A dict is a    *)
(* function from its keys; None and the empty dict are both <<>>; a float  *)
(* that is a quotient is kept as the pair of its numerator and denominator. *)

\* d.get(k, default)
Get(d, k, default) == IF k \in DOMAIN d THEN d[k] ELSE default

\* bool(filters.get(k) and filters[k] != 'All'): the key is there, its value
\* is not the empty string and not 'All'
FilterSet(filters, k) ==
    /\ k \in DOMAIN filters
    /\ filters[k] # ""
    /\ filters[k] # "All"

\* m.get(k) == filters[k]
FieldIs(m, k, v) == k \in DOMAIN m /\ m[k] = v

Ratio(num, den) == [num |-> num, den |-> den]

\* sum(metric.get(k, 0) for metric in metrics)
RECURSIVE SumOf(_, _)
SumOf(metrics, k) ==
    IF metrics = <<>> THEN 0
    ELSE Get(Head(metrics), k, 0) + SumOf(Tail(metrics), k)

\* the loop of lines 283-288: time_to_hire * hired_count summed over the
\* metrics where both are positive, and the hired_count of those
RECURSIVE TimeToHire(_)
TimeToHire(metrics) ==
    IF metrics = <<>> THEN [total |-> 0, hired |-> 0]
    ELSE LET time_to_hire == Get(Head(metrics), "avg_time_to_hire", 0)
             hired_count == Get(Head(metrics), "hired_count", 0)
             rest == TimeToHire(Tail(metrics))
         IN  IF time_to_hire > 0 /\ hired_count > 0
             THEN [total |-> rest.total + time_to_hire * hired_count,
                   hired |-> rest.hired + hired_count]
             ELSE rest

\* return 0, 0.0, 0.0, 0, 0.0
ZeroKpis == <<0, Ratio(0, 1), Ratio(0, 1), 0, 0>>

\* the lines after the filters: sums, rates, in-flight and completed
KpisOf(filtered_metrics) ==
    IF filtered_metrics = <<>>
    THEN ZeroKpis
    ELSE LET total_applicants == SumOf(filtered_metrics, "total_applicants")
             total_hired == SumOf(filtered_metrics, "hired_count")
             total_rejected == SumOf(filtered_metrics, "rejected_count")
             conversion_rate ==
                 IF total_applicants > 0
                 THEN Ratio(total_hired * 100, total_applicants)
                 ELSE Ratio(0, 1)
             tth == TimeToHire(filtered_metrics)
             avg_time_to_hire ==
                 IF tth.hired > 0 THEN Ratio(tth.total, tth.hired)
                 ELSE Ratio(0, 1)
             completed_applications == total_hired + total_rejected
             in_flight_candidates == total_applicants - completed_applications
         IN  <<total_applicants, conversion_rate, avg_time_to_hire,
               in_flight_candidates, completed_applications>>

\* calculate_core_kpis as a bug would have it: the department filter is
\* applied to hiring_metrics, so it replaces the role filter
calculate_core_kpis_replace(hiring_metrics, filters) ==
    IF hiring_metrics = <<>>
    THEN ZeroKpis
    ELSE LET ByRole(m) == FieldIs(m, "role", filters["role"])
             ByDepartment(m) == FieldIs(m, "department", filters["department"])
             by_role == IF FilterSet(filters, "role")
                        THEN SelectSeq(hiring_metrics, ByRole)
                        ELSE hiring_metrics
             filtered_metrics ==
                 IF FilterSet(filters, "department")
                 THEN SelectSeq(hiring_metrics, ByDepartment)
                 ELSE by_role
         IN  KpisOf(filtered_metrics)

\* calculate_core_kpis(hiring_metrics, status_summary, filters);
\* status_summary is not read
calculate_core_kpis(hiring_metrics, filters) ==
    IF hiring_metrics = <<>>
    THEN ZeroKpis
    ELSE LET ByRole(m) == FieldIs(m, "role", filters["role"])
             ByDepartment(m) == FieldIs(m, "department", filters["department"])
             by_role == IF FilterSet(filters, "role")
                        THEN SelectSeq(hiring_metrics, ByRole)
                        ELSE hiring_metrics
             filtered_metrics ==
                 IF FilterSet(filters, "department")
                 THEN SelectSeq(by_role, ByDepartment)
                 ELSE by_role
         IN  KpisOf(filtered_metrics)

\* The rows of /hiring-metrics the lists are made of: the API sends no
\* rejected_count; other callers may.
MetricCounts ==
    { [total_applicants |-> 3, hired_count |-> 1, rejected_count |-> 1,
       avg_time_to_hire |-> 5],
      [total_applicants |-> 2, hired_count |-> 2, avg_time_to_hire |-> 4],
      [total_applicants |-> 1, hired_count |-> 0, avg_time_to_hire |-> 0] }
MetricRoles == {"Editor", "Writer"}
MetricDepartments == {"Creative", "Unknown"}
Metrics ==
    { [role |-> r, department |-> d] @@ c :
        r \in MetricRoles, d \in MetricDepartments, c \in MetricCounts }

RECURSIVE ListsOf(_, _)
ListsOf(S, n) ==
    IF n = 0 THEN {<<>>}
    ELSE LET shorter == ListsOf(S, n - 1)
         IN  shorter \cup {Append(l, x) : l \in shorter, x \in S}

\* The filters argument: None or {} (both <<>>), or a dict with one or both
\* of the keys.
FilterDicts ==
    {<<>>}
      \cup {[role |-> r] : r \in MetricRoles \cup {"All", ""}}
      \cup {[department |-> d] : d \in MetricDepartments \cup {"All"}}
      \cup {[role |-> r, department |-> d] :
               r \in MetricRoles \cup {"All", ""},
               d \in MetricDepartments \cup {"All"}}

KpiInit ==
    /\ now = 0
    /\ CACHE = EmptyCache
    /\ DEV_MODE = TRUE
    /\ last = NoOp
    /\ hist = NoHist
    /\ nreq = 0
    /\ thr = NoThreads
    /\ db = NoDatabase
    /\ \E hiring_metrics \in ListsOf(Metrics, MaxMetrics),
          filters \in FilterDicts :
          run = [pc |-> "call", hiring_metrics |-> hiring_metrics,
                 filters |-> filters, ret |-> ZeroKpis]

CalculateCoreKpis ==
    /\ run.pc = "call"
    /\ run' = [run EXCEPT
          !.pc = "returned",
          !.ret = calculate_core_kpis(run.hiring_metrics, run.filters)]
    /\ UNCHANGED <<db, api>>

KpiNext == CalculateCoreKpis

KpiSpec == KpiInit /\ [][KpiNext]_vars

\* the metric passes the filters: each filter that is set names its field
Passes(m, filters) ==
    /\ FilterSet(filters, "role") => FieldIs(m, "role", filters["role"])
    /\ FilterSet(filters, "department") =>
           FieldIs(m, "department", filters["department"])

\* the sum of field k over the metrics of the list that pass the filters
RECURSIVE PassingSum(_, _, _)
PassingSum(metrics, filters, k) ==
    IF metrics = <<>> THEN 0
    ELSE (IF Passes(Head(metrics), filters) THEN Get(Head(metrics), k, 0)
          ELSE 0) + PassingSum(Tail(metrics), filters, k)

NonePasses(metrics, filters) ==
    \A i \in DOMAIN metrics : ~Passes(metrics[i], filters)

\* C27 (calculate_core_kpis accounting): in_flight_candidates plus
\* completed_applications is total_applicants; the totals are those of the
\* metrics that pass the role filter and the department filter, a filter
\* that is 'All', empty or absent passing everything; and the result is all
\* zeros when the list is empty or no metric passes.
C27_KpiAccounting ==
    (run.pc = "returned") =>
        /\ run.ret[4] + run.ret[5] = run.ret[1]
        /\ run.ret[1]
              = PassingSum(run.hiring_metrics, run.filters, "total_applicants")
        /\ run.ret[5]
              = PassingSum(run.hiring_metrics, run.filters, "hired_count")
                + PassingSum(run.hiring_metrics, run.filters, "rejected_count")
        /\ NonePasses(run.hiring_metrics, run.filters) => (run.ret = ZeroKpis)

\* both filters are set, one metric passes both, another only the
\* department filter, and the totals are those of the first alone
C27_Witness ==
    /\ run.pc = "returned"
    /\ FilterSet(run.filters, "role") /\ FilterSet(run.filters, "department")
    /\ Len(run.hiring_metrics) = 2
    /\ Passes(run.hiring_metrics[1], run.filters)
    /\ FieldIs(run.hiring_metrics[2], "department", run.filters["department"])
    /\ ~Passes(run.hiring_metrics[2], run.filters)
    /\ run.ret[1] = run.hiring_metrics[1]["total_applicants"]
    /\ run.ret[4] > 0

\* a list that is not empty, no metric passes, all zeros returned
C27_WitnessNoMatch ==
    /\ run.pc = "returned"
    /\ run.hiring_metrics # <<>>
    /\ NonePasses(run.hiring_metrics, run.filters)
    /\ run.ret = ZeroKpis


---------------------------------------------------------------------------
(* ExportSpec: src/simple_export.py, one run of main. The three fetches,   *)
(* the fallback and the three summaries are one action each.               *)

\* What requests.get gives for an endpoint: a 200 with the JSON the API
\* sends (rows or no rows), another status, or an exception.
HttpResponse(status, body) == [status |-> status, body |-> body]
ConnectionError == HttpResponse(0, None)
ExportResponses(ep) ==
    { ConnectionError, HttpResponse(500, None), HttpResponse(401, None) }
      \cup { HttpResponse(200, IF ep = "hiring-metrics"
                               THEN MetricsResult(rows)
                               ELSE RecordsList(rows)) : rows \in RowSets }

\* fetch_api_data of simple_export.py: the JSON of a 200, else None
export_fetch_api_data(response) ==
    IF response.status = 200 THEN response.body ELSE None

\* create_sample_data()
create_sample_data ==
    [hiring_metrics |->
         MetricsResult(<<"Software Engineer", "Data Analyst",
                         "Product Manager", "Marketing Specialist">>),
     applicant_status |->
         RecordsList(<<"Hired", "Rejected", "Interviewing", "Applied">>),
     employment_types |->
         RecordsList(<<"Full-time", "Contractor", "Part-time">>)]

\* hiring_data and 'metrics' in hiring_data
HasMetrics(hiring_data) == Truthy(hiring_data) /\ hiring_data.kind = "metrics"

ExportStart ==
    [pc |-> "fetch", fetched |-> <<>>, hiring_data |-> None,
     applicant_data |-> None, employment_data |-> None, sample |-> FALSE,
     files |-> {}]

ExportInit ==
    /\ now = 0
    /\ CACHE = EmptyCache
    /\ DEV_MODE = TRUE
    /\ last = NoOp
    /\ hist = NoHist
    /\ nreq = 0
    /\ thr = NoThreads
    /\ db = NoDatabase
    /\ run = ExportStart

\* lines 60-62: the three fetches
ExportFetch ==
    /\ run.pc = "fetch"
    /\ \E h \in ExportResponses("hiring-metrics"),
          a \in ExportResponses("applicants/status-summary"),
          e \in ExportResponses("employment-types") :
          run' = [run EXCEPT
              !.pc = "fallback",
              !.hiring_data = export_fetch_api_data(h),
              !.applicant_data = export_fetch_api_data(a),
              !.employment_data = export_fetch_api_data(e),
              !.fetched = [hiring |-> export_fetch_api_data(h),
                           applicant |-> export_fetch_api_data(a),
                           employment |-> export_fetch_api_data(e)]]
    /\ UNCHANGED <<db, api>>

\* lines 64-69 as a bug would have it: each dataset falls back on its own
ExportFallback_each ==
    /\ run.pc = "fallback"
    /\ LET sample_data == create_sample_data IN
       run' = [run EXCEPT
           !.pc = "hiring",
           !.sample = ~Truthy(run.hiring_data),
           !.hiring_data = IF Truthy(@) THEN @ ELSE sample_data.hiring_metrics,
           !.applicant_data =
               IF Truthy(@) THEN @ ELSE sample_data.applicant_status,
           !.employment_data =
               IF Truthy(@) THEN @ ELSE sample_data.employment_types]
    /\ UNCHANGED <<db, api>>

\* lines 64-69: if not hiring_data, the three variables are set from the
\* sample
ExportFallback ==
    /\ run.pc = "fallback"
    /\ IF ~Truthy(run.hiring_data)
       THEN LET sample_data == create_sample_data IN
            run' = [run EXCEPT
                !.pc = "hiring",
                !.sample = TRUE,
                !.hiring_data = sample_data.hiring_metrics,
                !.applicant_data = sample_data.applicant_status,
                !.employment_data = sample_data.employment_types]
       ELSE run' = [run EXCEPT !.pc = "hiring"]
    /\ UNCHANGED <<db, api>>

\* One summary block: nothing when the guard is false; else the DataFrame
\* expressions run and the file is written. With data of the API an
\* expression may raise (a column that is missing, no row 'Hired' for
\* .iloc[0], an empty frame), which ends the process; the sample has every
\* column and row the expressions read.
Summary(pc, guard, file, next) ==
    /\ run.pc = pc
    /\ IF ~guard
       THEN run' = [run EXCEPT !.pc = next]
       ELSE \E raises \in (IF run.sample THEN {FALSE} ELSE BOOLEAN) :
               run' = IF raises
                      THEN [run EXCEPT !.pc = "crashed"]
                      ELSE [run EXCEPT !.pc = next,
                                       !.files = @ \cup {file}]
    /\ UNCHANGED <<db, api>>

\* lines 75-88
HiringSummary ==
    Summary("hiring", HasMetrics(run.hiring_data),
            "hiring_metrics_summary.txt", "applicants")

\* lines 91-104
ApplicantSummary ==
    Summary("applicants", Truthy(run.applicant_data),
            "applicant_status_summary.txt", "employment")

\* lines 107-120
EmploymentSummary ==
    Summary("employment", Truthy(run.employment_data),
            "employment_types_summary.txt", "done")

ExportNext ==
    \/ ExportFetch
    \/ ExportFallback
    \/ HiringSummary
    \/ ApplicantSummary
    \/ EmploymentSummary

ExportSpec == ExportInit /\ [][ExportNext]_vars

AfterFallback ==
    run.pc \in {"hiring", "applicants", "employment", "done", "crashed"}

\* C28 (simple_export fallback is all-or-nothing on the hiring fetch): after
\* the fallback, the three datasets are the three parts of the sample when
\* the hiring-metrics fetch returned None, whatever the other two fetches
\* returned, and are the three fetch results otherwise; in that case the
\* file of a dataset whose fetch returned None is never written.
C28_AllOrNothing ==
    AfterFallback =>
        IF run.fetched.hiring = None
        THEN /\ run.hiring_data = create_sample_data.hiring_metrics
             /\ run.applicant_data = create_sample_data.applicant_status
             /\ run.employment_data = create_sample_data.employment_types
        ELSE /\ run.hiring_data = run.fetched.hiring
             /\ run.applicant_data = run.fetched.applicant
             /\ run.employment_data = run.fetched.employment
             /\ (run.fetched.applicant = None) =>
                    ("applicant_status_summary.txt" \notin run.files)
             /\ (run.fetched.employment = None) =>
                    ("employment_types_summary.txt" \notin run.files)

\* the hiring fetch failed, the other two succeeded with rows, and the run
\* ended with the three files written from the sample
C28_Witness ==
    /\ run.pc = "done"
    /\ run.fetched.hiring = None
    /\ Truthy(run.fetched.applicant) /\ Truthy(run.fetched.employment)
    /\ run.applicant_data # run.fetched.applicant
    /\ Cardinality(run.files) = 3

\* the hiring fetch succeeded, the employment fetch failed, and the run
\* ended without the employment file
C28_WitnessPartial ==
    /\ run.pc = "done"
    /\ run.fetched.hiring # None
    /\ run.fetched.employment = None
    /\ run.files = {"hiring_metrics_summary.txt",
                    "applicant_status_summary.txt"}


---------------------------------------------------------------------------
(* DashSpec: main of src/visualizations/dashboard.py, which Streamlit runs *)
(* from its first line on every rerun (at most MaxRuns runs). run.log is   *)
(* the sequence of requests the run has asked for: the probe of /health    *)
(* and the calls of fetch_api_data.                                        *)

\* What requests.get("http://localhost:8000/health", timeout=5) gives.
HealthResponses ==
    {HttpResponse(200, HealthyResult(0)), HttpResponse(500, None),
     ConnectionError}

\* check_api_health(): status_code == 200, and False on any exception
check_api_health(response) == response.status = 200

Probed == [kind |-> "health", endpoint |-> "health"]
Asked(endpoint) == [kind |-> "data", endpoint |-> endpoint]

\* What the API answers to GET /{endpoint}, or the request raises.
DashResponses(ep) ==
    { ConnectionError, HttpResponse(500, None), HttpResponse(401, None) }
      \cup { HttpResponse(200, Dispatch(ep, EmptyCache, 0, QueryOk(rows),
                                        QueryOk(rows)).resp.body) :
                 rows \in RowSets }

\* fetch_api_data(endpoint), lines 222-249: the JSON of a 200, else None
fetch_api_data(response) ==
    IF response.status = 200 THEN response.body ELSE None

\* What a call of fetch_api_data returns to its caller. Two calls for one
\* endpoint are drawn apart: the memo of st.cache_data gives the second the
\* value of the first only while it is younger than its ttl.
FetchResults(ep) == {fetch_api_data(r) : r \in DashResponses(ep)}

\* The calls of fetch_api_data under the six tabs, in the order of the code.
TabFetches ==
    << "master-employee-view", "hiring-metrics", "employment-types",
       "master-employee-view", "master-employee-view", "hiring-metrics",
       "master-employee-view", "department-analytics" >>

RECURSIVE AskAll(_, _)
AskAll(log, endpoints) ==
    IF endpoints = <<>> THEN log
    ELSE AskAll(Append(log, Asked(Head(endpoints))), Tail(endpoints))

\* get_available_filters(), lines 1456-1479: the options after 'All'
NoFilters == [roles |-> <<>>, employee_types |-> <<>>]
get_available_filters(hiring_metrics, employee_data) ==
    [roles |-> IF Truthy(hiring_metrics) THEN hiring_metrics.rows ELSE <<>>,
     employee_types |->
         IF Truthy(employee_data) THEN employee_data.rows ELSE <<>>]

DashStart(n) ==
    [pc |-> "health", n |-> n, log |-> <<>>, probe |-> ConnectionError,
     healthy |-> FALSE, error |-> "", filters |-> NoFilters,
     hiring_metrics |-> None,
     status_summary |-> None, tabs |-> FALSE]

DashInit ==
    /\ now = 0
    /\ CACHE = EmptyCache
    /\ DEV_MODE = TRUE
    /\ last = NoOp
    /\ hist = NoHist
    /\ nreq = 0
    /\ thr = NoThreads
    /\ db = NoDatabase
    /\ run = DashStart(1)

\* lines 1486-1488 as a bug would have it: the error is shown and main goes
\* on
CheckApiHealth_goon ==
    /\ run.pc = "health"
    /\ \E response \in HealthResponses :
          run' = [run EXCEPT
              !.pc = "filters",
              !.log = Append(@, Probed),
              !.probe = response,
              !.healthy = check_api_health(response),
              !.error = IF check_api_health(response) THEN @
                        ELSE "API is not available"]
    /\ UNCHANGED <<db, api>>

\* lines 1486-1488: if not check_api_health(): st.error(...); return
CheckApiHealth ==
    /\ run.pc = "health"
    /\ \E response \in HealthResponses :
          run' = [run EXCEPT
              !.pc = IF check_api_health(response) THEN "filters"
                     ELSE "returned",
              !.log = Append(@, Probed),
              !.probe = response,
              !.healthy = check_api_health(response),
              !.error = IF check_api_health(response) THEN @
                        ELSE "API is not available"]
    /\ UNCHANGED <<db, api>>

\* the sidebar: get_available_filters(), lines 1456-1479
GetAvailableFilters ==
    /\ run.pc = "filters"
    /\ \E hiring_metrics \in FetchResults("hiring-metrics"),
          employee_data \in FetchResults("master-employee-view") :
          run' = [run EXCEPT
              !.pc = "core",
              !.log = AskAll(@, <<"hiring-metrics", "master-employee-view">>),
              !.filters = get_available_filters(hiring_metrics,
                                                employee_data)]
    /\ UNCHANGED <<db, api>>

\* lines 1563-1568: the core data; without hiring metrics main returns
FetchCoreData ==
    /\ run.pc = "core"
    /\ \E hiring_metrics \in FetchResults("hiring-metrics"),
          status_summary \in FetchResults("applicants/status-summary") :
          run' = [run EXCEPT
              !.pc = IF Truthy(hiring_metrics) THEN "tabs" ELSE "returned",
              !.log = AskAll(@, <<"hiring-metrics",
                                  "applicants/status-summary">>),
              !.hiring_metrics = hiring_metrics,
              !.status_summary = status_summary,
              !.error = IF Truthy(hiring_metrics) THEN @
                        ELSE "Unable to fetch hiring metrics data"]
    /\ UNCHANGED <<db, api>>

\* lines 1571-1625: the KPI cards and the six tabs
RenderTabs ==
    /\ run.pc = "tabs"
    /\ run' = [run EXCEPT
          !.pc = "returned",
          !.log = AskAll(@, TabFetches),
          !.tabs = TRUE]
    /\ UNCHANGED <<db, api>>

\* a widget is used or the page is loaded again: Streamlit runs the script
\* again
Rerun ==
    /\ run.pc = "returned"
    /\ run.n < MaxRuns
    /\ run' = DashStart(run.n + 1)
    /\ UNCHANGED <<db, api>>

DashNext ==
    \/ CheckApiHealth
    \/ GetAvailableFilters
    \/ FetchCoreData
    \/ RenderTabs
    \/ Rerun

DashSpec == DashInit /\ [][DashNext]_vars

\* C29 (The dashboard checks API health first): in every run of main the
\* first request is the probe of /health and every data request comes after
\* it, in a run whose probe answered 200; when the probe answers anything
\* else or raises, main shows the error and returns with no data request
\* made and no tab rendered.
C29_HealthFirst ==
    /\ run.log # <<>> =>
          /\ run.log[1] = Probed
          /\ \A i \in 2..Len(run.log) : run.log[i].kind = "data"
          /\ run.healthy <=> (run.probe.status = 200)
    /\ (\E i \in DOMAIN run.log : run.log[i].kind = "data") => run.healthy
    /\ run.tabs => run.healthy
    /\ (run.log # <<>> /\ run.probe.status # 200) =>
          /\ run.pc = "returned"
          /\ run.log = <<Probed>>
          /\ run.error = "API is not available"
          /\ ~run.tabs

\* the second run's probe got a 500: the run ended with the probe as its
\* only request
C29_Witness ==
    /\ run.n > 1
    /\ run.pc = "returned"
    /\ run.probe.status = 500
    /\ run.log = <<Probed>>
    /\ ~run.tabs

\* a healthy run rendered the tabs after the probe
C29_WitnessHealthy ==
    /\ run.pc = "returned" /\ run.tabs
    /\ run.log[1] = Probed
    /\ Len(run.log) > Len(TabFetches)


---------------------------------------------------------------------------
(* StaleSpec: the two cache layers between the database and the page. The  *)
(* dashboard's fetch_api_data is memoised by st.cache_data(ttl=300), and    *)
(* the handler it reaches answers from CACHE. A handler runs its query,    *)
(* works on the frame and only then stamps the entry (set_cached_data is   *)
(* its last statement before return); the memo is stamped when             *)
(* fetch_api_data returns, after the response has arrived. Both take time: *)
(* at most MaxLatency each here. Another client of the API (the export     *)
(* scripts, a browser) sends requests of its own.                          *)

\* ttl of @st.cache_data on fetch_api_data
MEMO_TTL == 300

\* the time a handler or a response takes: none, or as long as it may
Latencies == {0, MaxLatency}

\* the endpoints main fetches as its core data
StaleEndpoints == {"hiring-metrics", "applicants/status-summary"}

Clients == {"dashboard", "other"}

\* the dashboard sends no Authorization header; the other client sends a
\* valid one
CredentialsOf(client) ==
    IF client = "dashboard" THEN NoCredentials
    ELSE BasicAuth("admin", "admin_password")

NoCall == [stage |-> "none"]
NoRender == [shown |-> FALSE]
NoMemo == <<>>

\* An answer on its way: the response, when the query behind its body ran,
\* the timestamp of the CACHE entry it was read from or written to, and
\* when the handler looked into CACHE.
Answer(resp, sql_at, stamped_at, looked_at) ==
    [resp |-> resp, sql_at |-> sql_at, stamped_at |-> stamped_at,
     looked_at |-> looked_at]

\* st.cache_data as a bug would have it: an entry of exactly ttl seconds is
\* still served
MemoHit_inclusive(memo, ep, t) ==
    /\ ep \in DOMAIN memo
    /\ t - memo[ep].memo_at <= MEMO_TTL

\* st.cache_data: the stored return value is served while it is younger
\* than ttl
MemoHit(memo, ep, t) ==
    /\ ep \in DOMAIN memo
    /\ t - memo[ep].memo_at < MEMO_TTL

\* what the page shows of a value fetch_api_data returned at time t
Render(ep, entry, t) ==
    [shown |-> TRUE, endpoint |-> ep, value |-> entry.value, at |-> t,
     memo_at |-> entry.memo_at, sql_at |-> entry.sql_at,
     stamped_at |-> entry.stamped_at, looked_at |-> entry.looked_at]

StaleInit ==
    /\ now = 0
    /\ CACHE = EmptyCache
    /\ DEV_MODE \in BOOLEAN
    /\ last = NoOp
    /\ hist = NoHist
    /\ nreq = 0
    /\ thr = NoThreads
    /\ db = NoDatabase
    /\ run = [pc |-> "page", memo |-> NoMemo, call |-> NoCall,
              rendered |-> NoRender]

\* time passes while no request is under way
Idle ==
    /\ run.call = NoCall
    /\ Tick

\* fetch_api_data(ep) is called and the memo has the value
FetchMemoised(ep) ==
    /\ run.call = NoCall
    /\ MemoHit(run.memo, ep, now)
    /\ run' = [run EXCEPT !.rendered = Render(ep, run.memo[ep], now)]
    /\ UNCHANGED <<db, api>>

\* A request reaches its handler: the dependency, the look into CACHE and,
\* on a miss, the query. A hit, a 401 and a failed query are answered at
\* once; after a query that succeeded the handler has its frame to work on.
BeginRequest(client, ep) ==
    /\ run.call = NoCall
    /\ nreq < MaxRequests
    /\ client = "dashboard" => ~MemoHit(run.memo, ep, now)
    /\ \E q \in QueryOutcomes :
          LET key == CacheKeyOf(ep)
              out == Serve(ep, CACHE, DEV_MODE, CredentialsOf(client), now,
                           q, q)
              prior == FetchOf(hist, key)
          IN  run' = [run EXCEPT !.call =
                  IF out.queries >= 1 /\ q.ok
                  THEN [stage |-> "query", client |-> client,
                        endpoint |-> ep, q |-> q, sql_at |-> now]
                  ELSE [stage |-> "reply", client |-> client,
                        endpoint |-> ep,
                        answer |->
                            IF out.resp.status = 200
                            THEN Answer(out.resp, prior.t,
                                        EntryTimestamp(CACHE[key]), now)
                            ELSE Answer(out.resp, now, now, now)]]
    /\ nreq' = nreq + 1
    /\ UNCHANGED <<now, CACHE, DEV_MODE, last, hist, thr, db>>

\* The handler has built its result: set_cached_data stamps it with the
\* time it is now and the response goes out.
FinishQuery ==
    /\ run.call.stage = "query"
    /\ \E d \in Latencies :
          /\ now + d <= MaxTime
          /\ now' = now + d
          /\ LET c == run.call
                 key == CacheKeyOf(c.endpoint)
                 out == Serve(c.endpoint, CACHE, DEV_MODE,
                              CredentialsOf(c.client), now', c.q, c.q)
             IN  /\ CACHE' = out.cache
                 /\ hist' = IF key \in DOMAIN out.cache
                            THEN (key :> Fetch(c.sql_at, out.resp.body)) @@ hist
                            ELSE hist
                 /\ run' = [run EXCEPT !.call =
                        [stage |-> "reply", client |-> c.client,
                         endpoint |-> c.endpoint,
                         answer |-> Answer(out.resp, c.sql_at, now', c.sql_at)]]
    /\ UNCHANGED <<DEV_MODE, last, nreq, thr, db>>

\* the other client has its response
OtherReceive ==
    /\ run.call.stage = "reply"
    /\ run.call.client = "other"
    /\ run' = [run EXCEPT !.call = NoCall]
    /\ UNCHANGED <<db, api>>

\* the response arrives, fetch_api_data returns its JSON or None, the memo
\* stores what it returned and the page shows it
DashReceive ==
    /\ run.call.stage = "reply"
    /\ run.call.client = "dashboard"
    /\ \E d \in Latencies :
          /\ now + d <= MaxTime
          /\ now' = now + d
          /\ LET c == run.call
                 entry == [value |-> fetch_api_data(c.answer.resp),
                           memo_at |-> now',
                           sql_at |-> c.answer.sql_at,
                           stamped_at |-> c.answer.stamped_at,
                           looked_at |-> c.answer.looked_at]
             IN  run' = [run EXCEPT
                     !.call = NoCall,
                     !.memo = (c.endpoint :> entry) @@ @,
                     !.rendered = Render(c.endpoint, entry, now')]
    /\ UNCHANGED <<CACHE, DEV_MODE, last, hist, nreq, thr, db>>

StaleNext ==
    \/ Idle
    \/ \E ep \in StaleEndpoints : FetchMemoised(ep)
    \/ \E client \in Clients, ep \in StaleEndpoints : BeginRequest(client, ep)
    \/ FinishQuery
    \/ OtherReceive
    \/ DashReceive

StaleSpec == StaleInit /\ [][StaleNext]_vars

\* the page shows a payload (fetch_api_data returned something, not None)
ShowsPayload == run.rendered.shown /\ run.rendered.value # None

\* the age of the shown payload: from the query that produced it to the
\* moment it is shown
Age == run.rendered.at - run.rendered.sql_at

StaleTypeOK ==
    /\ now \in 0..MaxTime
    /\ ShowsPayload => Age >= 0


\* C30 as stated (End-to-end staleness with both cache layers): the SQL
\* query that produced a payload the dashboard shows ran less than 600
\* seconds, the two windows of 300 seconds together, before it is shown.
C30_Below600 ==
    ShowsPayload => Age < CACHE_DURATION + MEMO_TTL

\* C30 as amended: a payload the dashboard shows has been in the memo for
\* less than 300 seconds, and the CACHE entry it was answered from was less
\* than 300 seconds old when the handler looked; so the query behind it ran
\* less than 600 seconds before it is shown, plus the time the handler took
\* from its query to stamping the entry and the time from the handler's
\* look into CACHE to the memo's store (each at most MaxLatency here).
C30_EndToEndStaleness ==
    ShowsPayload =>
        LET r == run.rendered IN
        /\ r.at - r.memo_at < MEMO_TTL
        /\ r.looked_at - r.stamped_at < CACHE_DURATION
        /\ r.sql_at <= r.stamped_at
        /\ r.looked_at <= r.memo_at
        /\ Age < CACHE_DURATION + MEMO_TTL
                   + (r.stamped_at - r.sql_at) + (r.memo_at - r.looked_at)
        /\ Age < CACHE_DURATION + MEMO_TTL + 2 * MaxLatency

\* With no time lost in the handler or on the way, the memo served a payload
\* the API had served from CACHE: its query ran 598 seconds ago, far more
\* than one window of 300.
C30_Witness ==
    /\ ShowsPayload
    /\ run.rendered.at > run.rendered.memo_at
    /\ run.rendered.looked_at > run.rendered.stamped_at
    /\ run.rendered.stamped_at = run.rendered.sql_at
    /\ run.rendered.memo_at = run.rendered.looked_at
    /\ Age = CACHE_DURATION + MEMO_TTL - 2

\* the same with a handler and a response that took their time: 600 seconds
\* are reached
C30_WitnessLate ==
    /\ ShowsPayload
    /\ Age >= CACHE_DURATION + MEMO_TTL

===========================================================================
